---- MODULE Spec2Model ----
(***************************************************************************)
(* A model of flt2vhs: the FLT parser (flt.rs), the merge engine (flt.rs), *)
(* the VHS layout planner, id remapper and section writers (vhs.rs) and    *)
(* the driver loop (main.rs).                                              *)
(*                                                                         *)
(* f32 values are modelled by integers; the two infinities and NaN are     *)
(* sentinels whose order against the finite values is the IEEE order.      *)
(* Hash maps are functions; Option<T> is a sequence of length 0 or 1.      *)
(***************************************************************************)
EXTENDS Integers, Sequences, FiniteSets, TLC

VARIABLES
    pc,       \* where the program is
    flight,   \* the Flight being parsed, then written
    good,     \* the flight as it stood after the last complete record
    last,     \* the last record handed to read_record
    nread,    \* the number of records read from the current input
    seen,     \* the timestamps read from records other than TOD_OFFSET, in order
    id_map,   \* vhs::write: the IdMapping
    header,   \* vhs::write: the planned Header
    file,     \* vhs::write: the records written so far, by section
    args,     \* run: the command line (force, delete, number of inputs)
    flights,  \* run: the flights parsed so far
    starting_index,  \* run: the first input of the current run
    next_index,      \* run: the input to merge next
    outputs,  \* run: the outputs written, in order
    deleted,  \* run: the inputs removed
    exit_code,       \* the exit status of the process, -1 while it runs
    attempt,  \* the last call of Flight::merge: its arguments and results
    wf,       \* the last call of write_flight: its flight, environment and outcome
    consumed  \* how many records have been read from all the inputs

parseVars == <<flight, good, last, nread, seen>>
writeVars == <<id_map, header, file>>
runVars == <<args, flights, starting_index, next_index, outputs, deleted,
             exit_code, attempt, wf, consumed>>
vars == <<pc, parseVars, writeVars, runVars>>

----------------------------------------------------------------------------
(* Bounds of the model *)

MaxRecords == 3
MaxWriteRecords == 3
MaxLeftRecords == 3
MaxRightRecords == 2
MaxRunRecords == 3
MaxTimeRecords == 3
MaxCursorRecords == 3
MaxTargetRecords == 4
NumFiles == 3

----------------------------------------------------------------------------
(* f32 *)

NEG_INFINITY == -1000
INFINITY == 1000
NAN == 9999

IsFinite(a) == a > NEG_INFINITY /\ a < INFINITY

\* IEEE subtraction on the modelled values
FSub(a, b) ==
    IF a = NAN \/ b = NAN THEN NAN
    ELSE IF IsFinite(a) /\ IsFinite(b) THEN a - b
    ELSE IF a = b THEN NAN
    ELSE IF ~IsFinite(a) THEN a
    ELSE IF b = INFINITY THEN NEG_INFINITY ELSE INFINITY

\* IEEE addition on the modelled values
FAdd(a, b) ==
    IF a = NAN \/ b = NAN THEN NAN
    ELSE IF IsFinite(a) /\ IsFinite(b) THEN a + b
    ELSE IF IsFinite(b) THEN a
    ELSE IF IsFinite(a) \/ a = b THEN b
    ELSE NAN

\* IEEE comparisons: every comparison with NaN is false
FLt(a, b) == a # NAN /\ b # NAN /\ a < b
FGt(a, b) == a # NAN /\ b # NAN /\ a > b
FLe(a, b) == a # NAN /\ b # NAN /\ a <= b

----------------------------------------------------------------------------
(* Maps *)

EmptyMap == [k \in {} |-> k]
Put(m, k, v) == [x \in (DOMAIN m) \cup {k} |-> IF x = k THEN v ELSE m[x]]
Remove(m, k) == [x \in (DOMAIN m) \ {k} |-> m[x]]

SetMax(S) == CHOOSE m \in S : \A x \in S : x <= m

----------------------------------------------------------------------------
(* Record discriminants and entity flags *)

REC_TYPE_GENERAL_POSITION == 0
REC_TYPE_MISSILE_POSITION == 1
REC_TYPE_FEATURE_POSITION == 2
REC_TYPE_AIRCRAFT_POSITION == 3
REC_TYPE_TRACER_START == 4
REC_TYPE_STATIONARY_SFX == 5
REC_TYPE_MOVING_SFX == 6
REC_TYPE_SWITCH == 7
REC_TYPE_DOF == 8
REC_TYPE_CHAFF_POSITION == 9
REC_TYPE_FLARE_POSITION == 10
REC_TYPE_TOD_OFFSET == 11
REC_TYPE_FEATURE_STATUS == 12
REC_TYPE_CALLSIGN_LIST == 13

ENTITY_FLAG_MISSILE == 1
ENTITY_FLAG_FEATURE == 2
ENTITY_FLAG_AIRCRAFT == 4
ENTITY_FLAG_CHAFF == 8
ENTITY_FLAG_FLARE == 16

PositionTypes == {REC_TYPE_GENERAL_POSITION, REC_TYPE_MISSILE_POSITION,
                  REC_TYPE_AIRCRAFT_POSITION, REC_TYPE_CHAFF_POSITION,
                  REC_TYPE_FLARE_POSITION}

----------------------------------------------------------------------------
(* The flight model *)

DefaultCallsign == [label |-> 0, team_color |-> 0]

DefaultEntityData == [position_data |-> <<>>, events |-> <<>>]

\* Flight::default() with the two times set to NEG_INFINITY
NewFlight ==
    [corrupted |-> FALSE,
     tod_offset |-> 0,
     start_time |-> NEG_INFINITY,
     end_time |-> NEG_INFINITY,
     callsigns |-> EmptyMap,
     entities |-> EmptyMap,
     features |-> EmptyMap,
     general_events |-> <<>>,
     feature_events |-> <<>>]

Corrupt(f) == [f EXCEPT !.corrupted = TRUE]

----------------------------------------------------------------------------
(* read_record: one record of the FLT stream.                              *)
(* A record of the input is [type, cut, time, body]; cut says where the    *)
(* input ends inside the record: "none" (the record is complete), "time"   *)
(* (inside the timestamp) or "body" (inside the body).                     *)

Res(f, r) == [flight |-> f, result |-> r]

\* Times kept as the least and the greatest timestamp
UpdateTimesMin(f, type_byte, time) ==
    IF type_byte # REC_TYPE_TOD_OFFSET
    THEN LET s == IF f.start_time = NEG_INFINITY \/ FLt(time, f.start_time)
                  THEN time ELSE f.start_time
             e == IF FLt(f.end_time, time) THEN time ELSE f.end_time
         IN [f EXCEPT !.start_time = s, !.end_time = e]
    ELSE f

\* flt.rs 500-507
UpdateTimes(f, type_byte, time) ==
    IF type_byte # REC_TYPE_TOD_OFFSET
    THEN LET s == IF FLt(f.start_time, 0) THEN time ELSE f.start_time
             e == IF FLt(f.end_time, time) THEN time ELSE f.end_time
         IN [f EXCEPT !.start_time = s, !.end_time = e]
    ELSE f

EntityFlags(type_byte) ==
    CASE type_byte = REC_TYPE_GENERAL_POSITION -> 0
      [] type_byte = REC_TYPE_MISSILE_POSITION -> ENTITY_FLAG_MISSILE
      [] type_byte = REC_TYPE_AIRCRAFT_POSITION -> ENTITY_FLAG_AIRCRAFT
      [] type_byte = REC_TYPE_CHAFF_POSITION -> ENTITY_FLAG_CHAFF
      [] type_byte = REC_TYPE_FLARE_POSITION -> ENTITY_FLAG_FLARE

\* flight.entities.entry(uid).or_insert_with(Default::default)
EntityEntry(f, uid) ==
    IF uid \in DOMAIN f.entities THEN f.entities[uid] ELSE DefaultEntityData

\* flt.rs 510-586
ReadPosition(f, type_byte, time, record) ==
    LET radar_target == IF type_byte = REC_TYPE_AIRCRAFT_POSITION
                        THEN record.radar_target ELSE -1
        flags == EntityFlags(type_byte)
        entity_data == EntityEntry(f, record.uid)
        posit_data == IF entity_data.position_data # <<>>
                      THEN entity_data.position_data[1]
                      ELSE [kind |-> record.kind, flags |-> flags,
                            position_updates |-> <<>>]
        posit_update == [time |-> time, x |-> record.x, y |-> record.y,
                         z |-> record.z, pitch |-> record.pitch,
                         roll |-> record.roll, yaw |-> record.yaw,
                         radar_target |-> radar_target]
        pushed == [posit_data EXCEPT
                     !.position_updates = Append(@, posit_update)]
    IN [f EXCEPT !.entities =
            Put(@, record.uid, [entity_data EXCEPT !.position_data = <<pushed>>])]

\* A feature table that keeps the last definition
ReadFeaturePositionLast(f, time, record) ==
    [f EXCEPT !.features =
        Put(@, record.uid,
            [kind |-> record.kind, lead_uid |-> record.lead_uid,
             slot |-> record.slot, special_flags |-> record.special_flags,
             time |-> time, x |-> record.x, y |-> record.y, z |-> record.z,
             pitch |-> record.pitch, roll |-> record.roll, yaw |-> record.yaw])]

\* flt.rs 587-618
ReadFeaturePosition(f, time, record) ==
    LET feature == [kind |-> record.kind, lead_uid |-> record.lead_uid,
                    slot |-> record.slot, special_flags |-> record.special_flags,
                    time |-> time, x |-> record.x, y |-> record.y, z |-> record.z,
                    pitch |-> record.pitch, roll |-> record.roll, yaw |-> record.yaw]
    IN IF record.uid \in DOMAIN f.features
       THEN f
       ELSE [f EXCEPT !.features = Put(@, record.uid, feature)]

\* flt.rs 619-672
ReadGeneralEvent(f, type_byte, time, record) ==
    LET zero == [type_byte |-> type_byte, start |-> time, stop |-> time,
                 kind |-> 0, user |-> 0, flags |-> 0, scale |-> 0,
                 x |-> record.x, y |-> record.y, z |-> record.z,
                 dx |-> 0, dy |-> 0, dz |-> 0, roll |-> 0, pitch |-> 0, yaw |-> 0]
        event ==
          CASE type_byte = REC_TYPE_TRACER_START ->
                 [zero EXCEPT !.stop = FAdd(time, 5), !.dx = record.dx,
                              !.dy = record.dy, !.dz = record.dz]
            [] type_byte = REC_TYPE_STATIONARY_SFX ->
                 [zero EXCEPT !.stop = FAdd(time, record.ttl), !.kind = record.kind,
                              !.scale = record.scale]
            [] type_byte = REC_TYPE_MOVING_SFX ->
                 [zero EXCEPT !.stop = FAdd(time, record.ttl), !.kind = record.kind,
                              !.user = record.user, !.flags = record.flags,
                              !.dx = record.dx, !.dy = record.dy,
                              !.dz = record.dz, !.scale = record.scale]
    IN [f EXCEPT !.general_events = Append(@, event)]

\* flt.rs 673-706
ReadEntityEvent(f, type_byte, time, record) ==
    LET entity == EntityEntry(f, record.uid)
        payload ==
          IF type_byte = REC_TYPE_SWITCH
          THEN [tag |-> "SwitchEvent", number |-> record.switch_number,
                new_value |-> record.new_switch_value,
                previous_value |-> record.previous_switch_value]
          ELSE [tag |-> "DofEvent", number |-> record.dof_number,
                new_value |-> record.new_dof_value,
                previous_value |-> record.previous_dof_value]
        event == [time |-> time, payload |-> payload]
    IN [f EXCEPT !.entities =
            Put(@, record.uid, [entity EXCEPT !.events = Append(@, event)])]

\* flt.rs 708-723
ReadFeatureStatus(f, time, record) ==
    LET event == [time |-> time, feature_uid |-> record.uid,
                  new_status |-> record.new_status,
                  previous_status |-> record.previous_status]
    IN IF record.uid \notin DOMAIN f.features
       THEN f
       ELSE [f EXCEPT !.feature_events = Append(@, event)]

\* Keys that get the all-zero records of the array too
CallsignKeysWithDefaults(keys, callsign_array) ==
    {k \in keys : k >= 0 /\ k < Len(callsign_array)}

\* The keys of a map that get a callsign from the array (flt.rs 736-745)
CallsignKeys(keys, callsign_array) ==
    {k \in keys : /\ k >= 0
                  /\ k < Len(callsign_array)
                  /\ callsign_array[k + 1] # DefaultCallsign}

\* A reader that takes a negative count for an empty list
ReadCallsignListUnchecked(f, cut, record) ==
    LET cleared == [f EXCEPT !.callsigns = EmptyMap]
    IN IF cut = "body" THEN Res(cleared, "err") ELSE Res(cleared, "ok")

\* flt.rs 724-759 with parse_callsigns (1037-1051)
ReadCallsignList(f, cut, record) ==
    LET cleared == IF DOMAIN f.callsigns # {}
                   THEN [f EXCEPT !.callsigns = EmptyMap] ELSE f
    IN IF cut = "body" \/ record.count < 0
       THEN Res(cleared, "err")
       ELSE LET callsign_array == record.array
                entity_keys == CallsignKeys(DOMAIN f.entities, callsign_array)
                feature_keys == CallsignKeys(DOMAIN f.features, callsign_array)
            IN IF entity_keys \cap feature_keys # {}
               THEN Res(cleared, "panic")
               ELSE Res([cleared EXCEPT !.callsigns =
                            [k \in entity_keys \cup feature_keys |->
                                callsign_array[k + 1]]], "ok")

\* flt.rs 488-765
read_record(flight0, tok) ==
    IF tok.cut = "time" THEN Res(flight0, "err")
    ELSE
    LET type_byte == tok.type
        time == tok.time
        f == UpdateTimes(flight0, type_byte, time)
    IN  IF type_byte = REC_TYPE_CALLSIGN_LIST
          THEN ReadCallsignList(f, tok.cut, tok.body)
        ELSE IF type_byte \notin 0..13 THEN Res(f, "err")
        ELSE IF type_byte = REC_TYPE_TOD_OFFSET
          THEN Res([f EXCEPT !.tod_offset = time], "ok")
        ELSE IF tok.cut = "body" THEN Res(f, "err")
        ELSE IF type_byte \in PositionTypes
          THEN Res(ReadPosition(f, type_byte, time, tok.body), "ok")
        ELSE IF type_byte = REC_TYPE_FEATURE_POSITION
          THEN Res(ReadFeaturePosition(f, time, tok.body), "ok")
        ELSE IF type_byte \in {REC_TYPE_TRACER_START, REC_TYPE_STATIONARY_SFX,
                               REC_TYPE_MOVING_SFX}
          THEN Res(ReadGeneralEvent(f, type_byte, time, tok.body), "ok")
        ELSE IF type_byte \in {REC_TYPE_SWITCH, REC_TYPE_DOF}
          THEN Res(ReadEntityEvent(f, type_byte, time, tok.body), "ok")
        ELSE Res(ReadFeatureStatus(f, time, tok.body), "ok")

\* A parse that returns every entity it has seen
CleanupKeepsAll(f) == f

\* flt.rs 83-100: entities that never got position data are thrown out
Cleanup(f) ==
    LET entities_to_chuck ==
            {uid \in DOMAIN f.entities : f.entities[uid].position_data = <<>>}
    IN [f EXCEPT !.entities =
            [uid \in (DOMAIN f.entities) \ entities_to_chuck |-> f.entities[uid]]]

----------------------------------------------------------------------------
(* The records of the input streams the model reads *)

Tok(type, cut, time, body) == [type |-> type, cut |-> cut, time |-> time, body |-> body]

PositionBody(kind, uid, x, radar_target) ==
    [kind |-> kind, uid |-> uid, x |-> x, y |-> 0, z |-> 0,
     yaw |-> 0, pitch |-> 0, roll |-> 0, radar_target |-> radar_target]

FeatureBody(kind, uid, lead_uid, x) ==
    [kind |-> kind, uid |-> uid, lead_uid |-> lead_uid, slot |-> 0,
     special_flags |-> 0, x |-> x, y |-> 0, z |-> 0,
     yaw |-> 0, pitch |-> 0, roll |-> 0]

SoundBody(ttl) ==
    [kind |-> 1, user |-> 0, flags |-> 0, x |-> 0, y |-> 0, z |-> 0,
     dx |-> 0, dy |-> 0, dz |-> 0, ttl |-> ttl, scale |-> 1]

SwitchBody(uid) ==
    [kind |-> 1, uid |-> uid, switch_number |-> 1,
     new_switch_value |-> 1, previous_switch_value |-> 0]

DofBody(uid) ==
    [kind |-> 1, uid |-> uid, dof_number |-> 1,
     new_dof_value |-> 1, previous_dof_value |-> 0]

StatusBody(uid) == [uid |-> uid, new_status |-> 1, previous_status |-> 0]

Callsign(label) == [label |-> label, team_color |-> 1]

CallsignBody(count, array) == [count |-> count, array |-> array]

NoBody == [none |-> TRUE]

UnknownType == 14

ParseTokens ==
    {Tok(REC_TYPE_AIRCRAFT_POSITION, "none", t, PositionBody(1, u, 0, -1)) :
        t \in {0, 2}, u \in {0, 1}}
    \cup {Tok(REC_TYPE_AIRCRAFT_POSITION, "none", 0, PositionBody(2, 0, 0, 1)),
          Tok(REC_TYPE_GENERAL_POSITION, "none", 0, PositionBody(1, 0, 0, -1)),
          Tok(REC_TYPE_MISSILE_POSITION, "none", 0, PositionBody(1, 1, 0, -1)),
          Tok(REC_TYPE_CHAFF_POSITION, "none", 0, PositionBody(1, 1, 0, -1)),
          Tok(REC_TYPE_FLARE_POSITION, "none", 0, PositionBody(1, 1, 0, -1))}
    \cup {Tok(REC_TYPE_FEATURE_POSITION, "none", 0, FeatureBody(1, 0, -1, 0)),
          Tok(REC_TYPE_FEATURE_POSITION, "none", 0, FeatureBody(1, 0, -1, 5)),
          Tok(REC_TYPE_FEATURE_POSITION, "none", 0, FeatureBody(1, 1, 0, 0)),
          Tok(REC_TYPE_FEATURE_POSITION, "none", 0, FeatureBody(1, -1, -1, 0))}
    \cup {Tok(REC_TYPE_TRACER_START, "none", 0, SoundBody(0)),
          Tok(REC_TYPE_STATIONARY_SFX, "none", 0, SoundBody(2)),
          Tok(REC_TYPE_MOVING_SFX, "none", 0, SoundBody(2))}
    \cup {Tok(REC_TYPE_SWITCH, "none", 0, SwitchBody(0)),
          Tok(REC_TYPE_SWITCH, "none", 0, SwitchBody(2)),
          Tok(REC_TYPE_DOF, "none", 0, DofBody(2))}
    \cup {Tok(REC_TYPE_TOD_OFFSET, "none", 7, NoBody)}
    \cup {Tok(REC_TYPE_FEATURE_STATUS, "none", 0, StatusBody(0)),
          Tok(REC_TYPE_FEATURE_STATUS, "none", 0, StatusBody(2))}
    \cup {Tok(REC_TYPE_CALLSIGN_LIST, "none", 0,
              CallsignBody(2, <<Callsign(1), DefaultCallsign>>)),
          Tok(REC_TYPE_CALLSIGN_LIST, "none", 0,
              CallsignBody(3, <<Callsign(1), Callsign(2), Callsign(3)>>)),
          Tok(REC_TYPE_CALLSIGN_LIST, "none", 0, CallsignBody(0, <<>>)),
          Tok(REC_TYPE_CALLSIGN_LIST, "none", 0, CallsignBody(-1, <<>>))}
    \cup {Tok(REC_TYPE_AIRCRAFT_POSITION, "time", 0, NoBody),
          Tok(REC_TYPE_AIRCRAFT_POSITION, "body", 5, NoBody),
          Tok(REC_TYPE_CALLSIGN_LIST, "body", 0, NoBody),
          Tok(UnknownType, "none", 0, NoBody)}

\* The end of the input at a record boundary
EndOfInput == Tok(-1, "eof", 0, NoBody)

\* Before the first read
NoRecord == Tok(-1, "start", 0, NoBody)

----------------------------------------------------------------------------
(* Flight::parse, one record per step (flt.rs 58-103) *)

NotPlanned == [none |-> TRUE]

WriteIdle ==
    /\ id_map = NotPlanned
    /\ header = NotPlanned
    /\ file = EmptyMap

ParseStart ==
    /\ pc = "reading"
    /\ flight = NewFlight
    /\ good = NewFlight
    /\ last = NoRecord
    /\ nread = 0
    /\ seen = <<>>

NoAttempt == [result |-> "none"]
NotCalled == [outcome |-> "none"]

RunStart(a) ==
    /\ args = a
    /\ flights = <<>>
    /\ starting_index = 0
    /\ next_index = 1
    /\ outputs = <<>>
    /\ deleted = {}
    /\ exit_code = -1
    /\ attempt = NoAttempt
    /\ wf = NotCalled
    /\ consumed = 0

OneInput == [force |-> FALSE, delete |-> FALSE, inputs |-> 1]

ParseInit == ParseStart /\ WriteIdle /\ RunStart(OneInput)

\* One iteration of the loop on a record of the input
ReadRecord(tok, max) ==
    /\ pc = "reading"
    /\ nread < max
    /\ LET res == read_record(flight, tok)
       IN /\ flight' = IF res.result = "err" THEN Corrupt(res.flight) ELSE res.flight
          /\ pc' = CASE res.result = "ok" -> "reading"
                     [] res.result = "err" -> "cleanup"
                     [] res.result = "panic" -> "panicked"
          /\ good' = IF res.result = "ok" THEN res.flight ELSE good
    /\ last' = tok
    /\ nread' = nread + 1
    /\ seen' = IF tok.cut # "time" /\ tok.type # REC_TYPE_TOD_OFFSET
               THEN Append(seen, tok.time) ELSE seen
    /\ consumed' = consumed + 1
    /\ exit_code' = IF pc' = "panicked" THEN 101 ELSE exit_code
    /\ UNCHANGED <<writeVars, args, flights, starting_index, next_index,
                   outputs, deleted, attempt, wf>>

\* read() returns 0 bytes where a discriminant is expected
ReadEof ==
    /\ pc = "reading"
    /\ pc' = "cleanup"
    /\ last' = EndOfInput
    /\ UNCHANGED <<flight, good, nread, seen, writeVars, runVars>>

\* The end of parse: event-only entities are removed and the flight returned
ParseCleanup ==
    /\ pc = "cleanup"
    /\ flight' = Cleanup(flight)
    /\ pc' = "done"
    /\ UNCHANGED <<good, last, nread, seen, writeVars, runVars>>

ParseNext ==
    \/ \E tok \in ParseTokens : ReadRecord(tok, MaxRecords)
    \/ ReadEof
    \/ ParseCleanup

Spec == ParseInit /\ [][ParseNext]_vars

\* Records whose timestamps are of every kind an f32 can be, in every order
TimeTokens ==
    {Tok(REC_TYPE_AIRCRAFT_POSITION, "none", t, PositionBody(1, 0, 0, -1)) :
        t \in {NEG_INFINITY, -2, -1, 0, 1, 2, INFINITY, NAN}}
    \cup {Tok(REC_TYPE_TOD_OFFSET, "none", t, NoBody) : t \in {-3, 3, NAN}}
    \cup {Tok(REC_TYPE_TRACER_START, "body", t, NoBody) : t \in {-1, 1}}
    \cup {Tok(REC_TYPE_TRACER_START, "time", 0, NoBody)}

TimesNext ==
    \/ \E tok \in TimeTokens : ReadRecord(tok, MaxTimeRecords)
    \/ ReadEof
    \/ ParseCleanup

SpecTimes == ParseInit /\ [][TimesNext]_vars

----------------------------------------------------------------------------
(* vhs.rs: id remapping, layout planning and the section writers *)

ENTITY_OFFSET == 80
ENTITY_SIZE == 36
ENTITY_UPDATE_SIZE == 41
GENERAL_EVENT_SIZE == 65
GENERAL_EVENT_TRAILER_SIZE == 8
FEATURE_EVENT_SIZE == 16
CALLSIGN_RECORD_SIZE == 20

\* A field written by write_u8 / write_u32 / write_i32 / write_f32 / write_all
Field(name, bytes, val) == [name |-> name, bytes |-> bytes, val |-> val]
U8(name, val) == Field(name, 1, val)
U32(name, val) == Field(name, 4, val)
I32(name, val) == Field(name, 4, val)
F32(name, val) == Field(name, 4, val)

RECURSIVE RecordBytes(_)
RecordBytes(rec) ==
    IF rec = <<>> THEN 0 ELSE Head(rec).bytes + RecordBytes(Tail(rec))

RECURSIVE SectionBytes(_)
SectionBytes(recs) ==
    IF recs = <<>> THEN 0 ELSE RecordBytes(Head(recs)) + SectionBytes(Tail(recs))

Get(rec, name) == rec[CHOOSE i \in 1..Len(rec) : rec[i].name = name].val

\* vhs.rs 98-119: the comparator of the sort, on (id, IdType) pairs
IdTypeOrd(kind) == IF kind = "Entity" THEN 0 ELSE 1

\* A comparator that does not put the ids with a callsign first
IdLessNoCallsigns(f, left, right) ==
    IF left.kind # right.kind
    THEN IdTypeOrd(left.kind) < IdTypeOrd(right.kind)
    ELSE left.id < right.id

IdLess(f, left, right) ==
    LET lc == left.id \in DOMAIN f.callsigns
        rc == right.id \in DOMAIN f.callsigns
    IN IF lc /\ ~rc THEN TRUE
       ELSE IF ~lc /\ rc THEN FALSE
       ELSE IF left.kind # right.kind
            THEN IdTypeOrd(left.kind) < IdTypeOrd(right.kind)
            ELSE left.id < right.id

RECURSIVE SortIds(_, _)
SortIds(f, S) ==
    IF S = {} THEN <<>>
    ELSE LET m == CHOOSE m \in S : \A x \in S \ {m} : IdLess(f, m, x)
         IN <<m>> \o SortIds(f, S \ {m})

\* slice::partition_point on a partitioned slice: the index of the first
\* element that does not satisfy the predicate
PartitionPoint(f, all_ids) ==
    LET stops == {i \in 1..Len(all_ids) : all_ids[i].id \notin DOMAIN f.callsigns}
    IN IF stops = {} THEN Len(all_ids)
       ELSE (CHOOSE i \in stops : \A j \in stops : i <= j) - 1

\* vhs.rs 131-151: enumerate().filter_map() by kind
RECURSIVE Remaps(_, _, _)
Remaps(all_ids, i, kind) ==
    IF i > Len(all_ids) THEN <<>>
    ELSE (IF all_ids[i].kind = kind
          THEN <<[original |-> all_ids[i].id, new |-> i - 1]>>
          ELSE <<>>) \o Remaps(all_ids, i + 1, kind)

\* vhs.rs 86-158
IdMappingNew(f) ==
    LET all_ids == SortIds(f,
            {[id |-> eid, kind |-> "Entity"] : eid \in DOMAIN f.entities}
            \cup {[id |-> fid, kind |-> "Feature"] : fid \in DOMAIN f.features})
        callsign_bound == PartitionPoint(f, all_ids)
    IN [entities |-> Remaps(all_ids, 1, "Entity"),
        features |-> Remaps(all_ids, 1, "Feature"),
        callsign_ids |-> [i \in 1..callsign_bound |-> all_ids[i].id]]

RECURSIVE SumOver(_, _)
SumOver(m, S) ==
    IF S = {} THEN 0
    ELSE LET k == CHOOSE k \in S : TRUE IN m[k] + SumOver(m, S \ {k})

Updates(f, uid) == f.entities[uid].position_data[1].position_updates

\* vhs.rs 293-353
HeaderNew(f, num_callsigns) ==
    LET entity_count == Cardinality(DOMAIN f.entities)
        feature_count == Cardinality(DOMAIN f.features)
        entity_position_count ==
            SumOver([u \in DOMAIN f.entities |-> Len(Updates(f, u))], DOMAIN f.entities)
        position_count == entity_position_count + feature_count
        entity_event_count ==
            SumOver([u \in DOMAIN f.entities |-> Len(f.entities[u].events)],
                    DOMAIN f.entities)
        feature_offset == ENTITY_OFFSET + ENTITY_SIZE * entity_count
        position_offset == feature_offset + ENTITY_SIZE * feature_count
        entity_event_offset == position_offset + ENTITY_UPDATE_SIZE * position_count
        general_event_count == Len(f.general_events)
        general_event_offset ==
            entity_event_offset + ENTITY_UPDATE_SIZE * entity_event_count
        general_event_trailer_offset ==
            general_event_offset + GENERAL_EVENT_SIZE * general_event_count
        feature_event_offset ==
            general_event_trailer_offset + GENERAL_EVENT_TRAILER_SIZE * general_event_count
        text_event_offset ==
            feature_event_offset + FEATURE_EVENT_SIZE * Len(f.feature_events)
        file_length == text_event_offset + 4 + CALLSIGN_RECORD_SIZE * num_callsigns
    IN [entity_count |-> entity_count,
        feature_count |-> feature_count,
        position_count |-> position_count,
        entity_event_count |-> entity_event_count,
        feature_offset |-> feature_offset,
        position_offset |-> position_offset,
        entity_event_offset |-> entity_event_offset,
        general_event_offset |-> general_event_offset,
        general_event_trailer_offset |-> general_event_trailer_offset,
        feature_event_offset |-> feature_event_offset,
        text_event_offset |-> text_event_offset,
        file_length |-> file_length]

\* vhs.rs 355-431
HeaderWrite(h, f) ==
    << <<Field("magic", 4, "EPAT"),
         U32("file_size", h.text_event_offset),
         U32("entity_count", h.entity_count),
         U32("feature_count", h.feature_count),
         U32("entity_offset", ENTITY_OFFSET),
         U32("feature_offset", h.feature_offset),
         U32("position_count", h.position_count),
         U32("position_offset", h.position_offset),
         U32("entity_event_offset", h.entity_event_offset),
         U32("general_event_offset", h.general_event_offset),
         U32("general_event_trailer_offset", h.general_event_trailer_offset),
         U32("text_event_offset", h.text_event_offset),
         U32("feature_event_offset", h.feature_event_offset),
         U32("general_event_count", Len(f.general_events)),
         U32("entity_event_count", h.entity_event_count),
         U32("text_event_count", 0),
         U32("feature_event_count", Len(f.feature_events)),
         F32("start_time", f.start_time),
         F32("total_time", FSub(f.end_time, f.start_time)),
         F32("tod_offset", f.tod_offset)>> >>

\* Index maps from the original id to the new id
IndexOfNewId(mapping) ==
    [id \in {mapping[i].original : i \in 1..Len(mapping)} |->
        mapping[CHOOSE i \in 1..Len(mapping) :
                    /\ mapping[i].original = id
                    /\ \A j \in 1..Len(mapping) : mapping[j].original = id => j <= i].new]

\* The index maps built at vhs.rs 197-201 and 557-561: original id to the
\* position in the mapping
IndexOf(mapping) ==
    [id \in {mapping[i].original : i \in 1..Len(mapping)} |->
        (CHOOSE i \in 1..Len(mapping) :
            /\ mapping[i].original = id
            /\ \A j \in 1..Len(mapping) : mapping[j].original = id => j <= i) - 1]

Lookup(m, k, default) == IF k \in DOMAIN m THEN m[k] ELSE default

\* vhs.rs 454-506; the result is the records, the returned offset and
\* whether an assertion failed
RECURSIVE WriteEntitiesFrom(_, _, _, _, _, _, _)
WriteEntitiesFrom(f, entity_mapping, h, i, kind_indexes, position_index, event_index) ==
    IF i > Len(entity_mapping)
    THEN [recs |-> <<>>, panic |-> FALSE,
          ret |-> h.position_offset + ENTITY_UPDATE_SIZE * position_index]
    ELSE LET id == entity_mapping[i].new
             entity == f.entities[entity_mapping[i].original]
             data == entity.position_data[1]
             kind_index == Lookup(kind_indexes, data.kind, 1)
             first_position_offset ==
                 h.position_offset + ENTITY_UPDATE_SIZE * position_index
             first_event_offset ==
                 IF entity.events = <<>> THEN 0
                 ELSE h.entity_event_offset + ENTITY_UPDATE_SIZE * event_index
             rec == <<I32("id", id), I32("kind", data.kind),
                      I32("kind_index", kind_index), U32("flags", data.flags),
                      I32("lead_index", 0), I32("slot", 0), U32("special_flags", 0),
                      U32("first_position_offset", first_position_offset),
                      U32("first_event_offset", first_event_offset)>>
             failed == \/ data.position_updates = <<>>
                       \/ first_position_offset < h.position_offset
                       \/ first_position_offset >= h.entity_event_offset
             rest == WriteEntitiesFrom(f, entity_mapping, h, i + 1,
                        Put(kind_indexes, data.kind, kind_index + 1),
                        position_index + Len(data.position_updates),
                        event_index + Len(entity.events))
         IN [recs |-> <<rec>> \o rest.recs,
             panic |-> failed \/ rest.panic,
             ret |-> rest.ret]

write_entities(f, entity_mapping, h) ==
    WriteEntitiesFrom(f, entity_mapping, h, 1, EmptyMap, 0, 0)

\* vhs.rs 510-549
write_features(f, feature_mapping, feature_indexes, feature_position_offset, h) ==
    LET rec(i) ==
          LET feature == f.features[feature_mapping[i].original]
              position_offset == feature_position_offset + ENTITY_UPDATE_SIZE * (i - 1)
          IN <<I32("id", feature_mapping[i].new), I32("kind", feature.kind),
               I32("kind_index", 0), U32("flags", ENTITY_FLAG_FEATURE),
               I32("lead_index", Lookup(feature_indexes, feature.lead_uid, -1)),
               I32("slot", feature.slot), U32("special_flags", feature.special_flags),
               U32("first_position_offset", position_offset),
               U32("first_event_offset", 0)>>
    IN [recs |-> [i \in 1..Len(feature_mapping) |-> rec(i)],
        panic |-> \E i \in 1..Len(feature_mapping) :
                     LET position_offset ==
                            feature_position_offset + ENTITY_UPDATE_SIZE * (i - 1)
                     IN \/ position_offset < feature_position_offset
                        \/ position_offset >= h.entity_event_offset]

\* A list whose last element points on
NextOffsetNoEnd(k, n, current_offset) == current_offset + ENTITY_UPDATE_SIZE

\* vhs.rs 594-598 and 678-682
NextOffset(k, n, current_offset) ==
    IF k < n THEN current_offset + ENTITY_UPDATE_SIZE ELSE 0

\* vhs.rs 572-602: the position updates of one entity, written at the
\* running position of the CountedWrite
RECURSIVE WriteUpdates(_, _, _, _, _)
WriteUpdates(updates, k, posit, previous_offset, entity_indexes) ==
    IF k > Len(updates) THEN <<>>
    ELSE LET new_posit == updates[k]
             current_offset == posit
             next_offset == NextOffset(k, Len(updates), current_offset)
             rec == <<F32("time", new_posit.time), U8("tag", 0),
                      F32("x", new_posit.x), F32("y", new_posit.y),
                      F32("z", new_posit.z), F32("pitch", new_posit.pitch),
                      F32("roll", new_posit.roll), F32("yaw", new_posit.yaw),
                      I32("radar_target_index",
                          Lookup(entity_indexes, new_posit.radar_target, -1)),
                      U32("next_offset", next_offset),
                      U32("prev_offset", previous_offset)>>
         IN <<rec>> \o WriteUpdates(updates, k + 1, posit + RecordBytes(rec),
                                    current_offset, entity_indexes)

\* vhs.rs 551-605
RECURSIVE WriteEntityPositionsFrom(_, _, _, _)
WriteEntityPositionsFrom(f, entity_mapping, i, posit) ==
    IF i > Len(entity_mapping) THEN <<>>
    ELSE LET recs == WriteUpdates(Updates(f, entity_mapping[i].original), 1,
                                  posit, 0, IndexOf(entity_mapping))
         IN recs \o WriteEntityPositionsFrom(f, entity_mapping, i + 1,
                                            posit + SectionBytes(recs))

write_entity_positions(f, entity_mapping, posit) ==
    WriteEntityPositionsFrom(f, entity_mapping, 1, posit)

\* Feature positions written without the two link fields
write_feature_positions_unlinked(f, feature_mapping) ==
    [i \in 1..Len(feature_mapping) |->
        LET feature == f.features[feature_mapping[i].original]
        IN <<F32("time", feature.time), U8("tag", 0),
             F32("x", feature.x), F32("y", feature.y), F32("z", feature.z),
             F32("pitch", feature.pitch), F32("roll", feature.roll),
             F32("yaw", feature.yaw), I32("radar_target_index", -1)>>]

\* vhs.rs 607-634
write_feature_positions(f, feature_mapping) ==
    [i \in 1..Len(feature_mapping) |->
        LET feature == f.features[feature_mapping[i].original]
        IN <<F32("time", feature.time), U8("tag", 0),
             F32("x", feature.x), F32("y", feature.y), F32("z", feature.z),
             F32("pitch", feature.pitch), F32("roll", feature.roll),
             F32("yaw", feature.yaw), I32("radar_target_index", -1),
             U32("next_offset", 0), U32("prev_offset", 0)>>]

\* vhs.rs 649-686: the events of one entity
RECURSIVE WriteEvents(_, _, _, _)
WriteEvents(events, k, posit, previous_offset) ==
    IF k > Len(events) THEN <<>>
    ELSE LET event == events[k]
             current_offset == posit
             next_offset == NextOffset(k, Len(events), current_offset)
             rec == <<F32("time", event.time),
                      U8("tag", IF event.payload.tag = "SwitchEvent" THEN 1 ELSE 2),
                      I32("number", event.payload.number),
                      Field("new_value", 4, event.payload.new_value),
                      Field("previous_value", 4, event.payload.previous_value),
                      U32("pad1", 0), U32("pad2", 0), U32("pad3", 0), U32("pad4", 0),
                      U32("next_offset", next_offset),
                      U32("prev_offset", previous_offset)>>
         IN <<rec>> \o WriteEvents(events, k + 1, posit + RecordBytes(rec),
                                   current_offset)

\* vhs.rs 636-689
RECURSIVE WriteEntityEventsFrom(_, _, _, _)
WriteEntityEventsFrom(f, entity_mapping, i, posit) ==
    IF i > Len(entity_mapping) THEN <<>>
    ELSE LET recs == WriteEvents(f.entities[entity_mapping[i].original].events,
                                 1, posit, 0)
         IN recs \o WriteEntityEventsFrom(f, entity_mapping, i + 1,
                                         posit + SectionBytes(recs))

write_entity_events(f, entity_mapping, posit) ==
    WriteEntityEventsFrom(f, entity_mapping, 1, posit)

\* Trailers left in the order of the events
RECURSIVE SortTrailersByIndex(_)
SortTrailersByIndex(S) ==
    IF S = {} THEN <<>>
    ELSE LET m == CHOOSE m \in S : \A t \in S : m.index <= t.index
         IN <<m>> \o SortTrailersByIndex(S \ {m})

\* vhs.rs 727: par_sort_by is a stable sort by stop, ties keep the input order
RECURSIVE SortTrailers(_)
SortTrailers(S) ==
    IF S = {} THEN <<>>
    ELSE LET m == CHOOSE m \in S : \A t \in S \ {m} :
                     \/ m.stop < t.stop
                     \/ m.stop = t.stop /\ m.index < t.index
         IN <<m>> \o SortTrailers(S \ {m})

\* vhs.rs 696-733
write_general_events(f) ==
    LET events == [i \in 1..Len(f.general_events) |->
            LET event == f.general_events[i]
            IN <<U8("type_byte", event.type_byte), U32("index", i - 1),
                 F32("start", event.start), F32("stop", event.stop),
                 I32("kind", event.kind), I32("user", event.user),
                 U32("flags", event.flags), F32("scale", event.scale),
                 F32("x", event.x), F32("y", event.y), F32("z", event.z),
                 F32("dx", event.dx), F32("dy", event.dy), F32("dz", event.dz),
                 F32("roll", event.roll), F32("pitch", event.pitch),
                 F32("yaw", event.yaw)>>]
        trailers == SortTrailers({[stop |-> f.general_events[i].stop, index |-> i - 1] :
                                    i \in 1..Len(f.general_events)})
    IN [events |-> events,
        trailers |-> [i \in 1..Len(trailers) |->
                        <<F32("stop", trailers[i].stop), U32("index", trailers[i].index)>>],
        \* vhs.rs 727: partial_cmp(..).expect(..) panics on a NaN it compares
        panic |-> /\ Len(f.general_events) >= 2
                  /\ \E i \in 1..Len(f.general_events) : f.general_events[i].stop = NAN]

\* vhs.rs 735-751
write_feature_events(f, feature_indexes) ==
    [recs |-> [i \in 1..Len(f.feature_events) |->
                 LET event == f.feature_events[i]
                 IN <<F32("time", event.time),
                      I32("feature_index", Lookup(feature_indexes, event.feature_uid, -1)),
                      I32("new_status", event.new_status),
                      I32("previous_status", event.previous_status)>>],
     panic |-> \E i \in 1..Len(f.feature_events) :
                  f.feature_events[i].feature_uid \notin DOMAIN feature_indexes]

\* vhs.rs 753-766: the count, then one record per callsign id
write_callsigns(f, callsign_ids) ==
    << <<U32("count", Len(callsign_ids))>> >>
    \o [i \in 1..Len(callsign_ids) |->
          <<Field("label", 16, f.callsigns[callsign_ids[i]].label),
            I32("team_color", f.callsigns[callsign_ids[i]].team_color)>>]

----------------------------------------------------------------------------
(* vhs::write (vhs.rs 166-269): plan, then one task per section group *)

WriteTokens ==
    {Tok(REC_TYPE_AIRCRAFT_POSITION, "none", 0, PositionBody(1, 0, 0, -1)),
     Tok(REC_TYPE_AIRCRAFT_POSITION, "none", 2, PositionBody(1, 1, 0, 0)),
     Tok(REC_TYPE_FEATURE_POSITION, "none", 0, FeatureBody(1, 1, -1, 0)),
     Tok(REC_TYPE_FEATURE_POSITION, "none", 0, FeatureBody(1, 2, 1, 0)),
     Tok(REC_TYPE_SWITCH, "none", 0, SwitchBody(0)),
     Tok(REC_TYPE_TRACER_START, "none", 0, SoundBody(0)),
     Tok(REC_TYPE_STATIONARY_SFX, "none", 0, SoundBody(2)),
     Tok(REC_TYPE_MOVING_SFX, "none", 0, SoundBody(NAN)),
     Tok(REC_TYPE_FEATURE_STATUS, "none", 0, StatusBody(1)),
     Tok(REC_TYPE_CALLSIGN_LIST, "none", 0,
         CallsignBody(3, <<DefaultCallsign, Callsign(1), Callsign(2)>>)),
     Tok(REC_TYPE_AIRCRAFT_POSITION, "body", 1, NoBody)}

Sections == {"header", "entities", "features", "entity_positions",
             "feature_positions", "entity_events", "general_events",
             "trailers", "feature_events", "callsigns"}

\* vhs.rs 167-176: the id mapping, the header, set_len and the mapping
Plan ==
    /\ pc = "done"
    /\ \E io \in {"ok", "err"} :
         pc' = IF io = "ok" THEN "writing" ELSE "io_error"
    /\ id_map' = IdMappingNew(flight)
    /\ header' = HeaderNew(flight, Len(id_map'.callsign_ids))
    /\ UNCHANGED <<parseVars, file, runVars>>

\* vhs.rs 197-201
FeatureIndexes == IndexOf(id_map.features)

\* A task has written the sections out; it panics when an assertion fails
\* or when the writes do not fit its slice (write_all on a full slice fails)
TaskDone(out, slice_len, panic) ==
    /\ file' = [s \in (DOMAIN file) \cup (DOMAIN out) |->
                   IF s \in DOMAIN out THEN out[s] ELSE file[s]]
    /\ pc' = IF panic \/ SumOver([s \in DOMAIN out |-> SectionBytes(out[s])], DOMAIN out)
                          > slice_len
             THEN "wpanicked" ELSE pc
    /\ exit_code' = IF pc' = "wpanicked" THEN 101 ELSE exit_code
    /\ UNCHANGED <<parseVars, id_map, header, args, flights, starting_index,
                   next_index, outputs, deleted, attempt, wf, consumed>>

Pending(s) == pc = "writing" /\ s \notin DOMAIN file

\* vhs.rs 211-215
HeaderTask ==
    /\ Pending("header")
    /\ TaskDone([s \in {"header"} |-> HeaderWrite(header, flight)],
                ENTITY_OFFSET, FALSE)

\* vhs.rs 217-231
EntitiesTask ==
    /\ Pending("entities")
    /\ LET e == write_entities(flight, id_map.entities, header)
           f == write_features(flight, id_map.features, FeatureIndexes, e.ret, header)
       IN TaskDone([s \in {"entities", "features"} |->
                        IF s = "entities" THEN e.recs ELSE f.recs],
                   header.position_offset - ENTITY_OFFSET,
                   \/ e.panic
                   \/ f.panic
                   \/ SectionBytes(e.recs) > header.feature_offset - ENTITY_OFFSET
                   \/ SectionBytes(f.recs) > header.position_offset - header.feature_offset)

\* vhs.rs 233-240
PositionsTask ==
    /\ Pending("entity_positions")
    /\ LET e == write_entity_positions(flight, id_map.entities, header.position_offset)
           f == write_feature_positions(flight, id_map.features)
           posit == header.position_offset + SectionBytes(e) + SectionBytes(f)
       IN TaskDone([s \in {"entity_positions", "feature_positions"} |->
                        IF s = "entity_positions" THEN e ELSE f],
                   header.entity_event_offset - header.position_offset,
                   posit # header.entity_event_offset)

\* vhs.rs 242-248
EntityEventsTask ==
    /\ Pending("entity_events")
    /\ LET e == write_entity_events(flight, id_map.entities, header.entity_event_offset)
           posit == header.entity_event_offset + SectionBytes(e)
       IN TaskDone([s \in {"entity_events"} |-> e],
                   header.general_event_offset - header.entity_event_offset,
                   posit # header.general_event_offset)

\* vhs.rs 250-253
GeneralEventsTask ==
    /\ Pending("general_events")
    /\ LET g == write_general_events(flight)
       IN IF g.panic
          THEN /\ file' = [s \in (DOMAIN file) \cup {"general_events"} |->
                              IF s = "general_events" THEN g.events ELSE file[s]]
               /\ pc' = "sort_panicked"
               /\ exit_code' = 101
               /\ UNCHANGED <<parseVars, id_map, header, args, flights,
                              starting_index, next_index, outputs, deleted,
                              attempt, wf, consumed>>
          ELSE TaskDone([s \in {"general_events", "trailers"} |->
                            IF s = "general_events" THEN g.events ELSE g.trailers],
                        header.feature_event_offset - header.general_event_offset,
                        FALSE)

\* vhs.rs 255-258
FeatureEventsTask ==
    /\ Pending("feature_events")
    /\ LET e == write_feature_events(flight, FeatureIndexes)
       IN TaskDone([s \in {"feature_events"} |-> e.recs],
                   header.text_event_offset - header.feature_event_offset,
                   e.panic)

\* vhs.rs 260-263
CallsignsTask ==
    /\ Pending("callsigns")
    /\ TaskDone([s \in {"callsigns"} |-> write_callsigns(flight, id_map.callsign_ids)],
                header.file_length - header.text_event_offset, FALSE)

\* vhs.rs 181-193: the slices split_at_mut cuts the mapping into, each as
\* <<first byte, byte after the last>>
Slices(h) ==
    [header_slice |-> <<0, ENTITY_OFFSET>>,
     entity_slice |-> <<ENTITY_OFFSET, h.feature_offset>>,
     feature_slice |-> <<h.feature_offset, h.position_offset>>,
     position_slice |-> <<h.position_offset, h.entity_event_offset>>,
     entity_events_slice |-> <<h.entity_event_offset, h.general_event_offset>>,
     general_events_slice |-> <<h.general_event_offset, h.feature_event_offset>>,
     feature_events_slice |-> <<h.feature_event_offset, h.text_event_offset>>,
     callsigns_slice |-> <<h.text_event_offset, h.file_length>>]

\* vhs.rs 210-263: the slice each section is written to
SliceOf(s) ==
    CASE s = "header" -> "header_slice"
      [] s = "entities" -> "entity_slice"
      [] s = "features" -> "feature_slice"
      [] s \in {"entity_positions", "feature_positions"} -> "position_slice"
      [] s = "entity_events" -> "entity_events_slice"
      [] s \in {"general_events", "trailers"} -> "general_events_slice"
      [] s = "feature_events" -> "feature_events_slice"
      [] s = "callsigns" -> "callsigns_slice"

\* A flush that does not wait for the scope
FlushEarly ==
    /\ pc = "writing"
    /\ \E io \in {"ok", "err"} :
         pc' = IF io = "ok" THEN "written" ELSE "io_error"
    /\ UNCHANGED <<parseVars, writeVars, runVars>>

\* vhs.rs 264-268: the scope has joined every task; flush the mapping
Flush ==
    /\ pc = "writing"
    /\ DOMAIN file = Sections
    /\ \E io \in {"ok", "err"} :
         pc' = IF io = "ok" THEN "written" ELSE "io_error"
    /\ UNCHANGED <<parseVars, writeVars, runVars>>

WriteNext ==
    \/ \E tok \in WriteTokens : ReadRecord(tok, MaxWriteRecords)
    \/ ReadEof
    \/ ParseCleanup
    \/ Plan
    \/ HeaderTask
    \/ EntitiesTask
    \/ PositionsTask
    \/ EntityEventsTask
    \/ GeneralEventsTask
    \/ FeatureEventsTask
    \/ CallsignsTask
    \/ Flush

SpecWrite == ParseInit /\ [][WriteNext]_vars

\* An input whose entities have radar targets and of which an entity and a
\* feature have a callsign
TargetTokens ==
    {Tok(REC_TYPE_AIRCRAFT_POSITION, "none", 0, PositionBody(1, 0, 0, -1)),
     Tok(REC_TYPE_AIRCRAFT_POSITION, "none", 0, PositionBody(1, 1, 0, 0)),
     Tok(REC_TYPE_FEATURE_POSITION, "none", 0, FeatureBody(1, 2, -1, 0)),
     Tok(REC_TYPE_CALLSIGN_LIST, "none", 0,
         CallsignBody(3, <<DefaultCallsign, Callsign(1), Callsign(2)>>))}

TargetNext ==
    \/ \E tok \in TargetTokens : ReadRecord(tok, MaxTargetRecords)
    \/ ReadEof
    \/ ParseCleanup
    \/ Plan
    \/ HeaderTask
    \/ EntitiesTask
    \/ PositionsTask
    \/ EntityEventsTask
    \/ GeneralEventsTask
    \/ FeatureEventsTask
    \/ CallsignsTask
    \/ Flush

SpecTargets == ParseInit /\ [][TargetNext]_vars

----------------------------------------------------------------------------
(* Flight::merge (flt.rs 105-362).  The iteration orders of the hash maps  *)
(* are parameters: order_prev / order_next list the keys of self.entities  *)
(* and next_flight.entities, forder_prev / forder_next those of the        *)
(* feature maps.                                                           *)

MERGE_DISTANCE == 5280

Max(a, b) == IF a >= b THEN a ELSE b

\* The uids and the id cursor are i32
I32_MAX == 2147483647

I32_MIN == -I32_MAX - 1

\* `+ 1` on an i32 in a build without overflow checks; a build with
\* overflow checks panics where this wraps
WrappingInc(x) == IF x = I32_MAX THEN I32_MIN ELSE x + 1

\* The sequences that list every element of a set once
Orders(S) ==
    {o \in [1..Cardinality(S) -> S] : \A i, j \in 1..Cardinality(S) : o[i] = o[j] => i = j}

PositionData(f, uid) == f.entities[uid].position_data[1]

\* flt.rs 199-202, squared
Distance2(next_position, previous_position) ==
    (next_position.x - previous_position.x) * (next_position.x - previous_position.x)
    + (next_position.y - previous_position.y) * (next_position.y - previous_position.y)
    + (next_position.z - previous_position.z) * (next_position.z - previous_position.z)

\* flt.rs 173-212: the first of the closest same-kind entities of self that
\* are not used yet, as <<id>>, or <<>> when none is within the threshold
ClosestEntity(self, next_data, used_previous_entities, order_prev) ==
    LET next_position == next_data.position_updates[1]
        dist(i) ==
            LET previous_data == PositionData(self, order_prev[i])
            IN Distance2(next_position,
                         previous_data.position_updates[Len(previous_data.position_updates)])
        candidates == {i \in 1..Len(order_prev) :
                          /\ PositionData(self, order_prev[i]).kind = next_data.kind
                          /\ order_prev[i] \notin used_previous_entities}
        closest == {i \in candidates : \A j \in candidates : dist(i) <= dist(j)}
    IN IF candidates = {} THEN <<>>
       ELSE LET first == CHOOSE i \in closest : \A j \in closest : i <= j
            IN IF dist(first) < MERGE_DISTANCE * MERGE_DISTANCE
               THEN <<order_prev[first]>> ELSE <<>>

\* flt.rs 172-232: the first loop of merge_entities from the k-th entity of
\* next_flight on; st is [used, found, ids, callsigns, unique_id, panic,
\* checks], where found holds the entities of next_flight that the search
\* found an entity of self for
RECURSIVE BindEntities(_, _, _, _, _, _)
BindEntities(self, next_flight, order_prev, order_next, k, st) ==
    IF k > Len(order_next) \/ st.panic THEN st
    ELSE LET next_id == order_next[k]
             closest == ClosestEntity(self, PositionData(next_flight, next_id),
                                      st.used, order_prev)
             bound == [st EXCEPT !.used = @ \cup {closest[1]},
                                 !.found = @ \cup {next_id},
                                 !.ids = Put(@, next_id, closest[1])]
             fresh == [st EXCEPT
                         !.ids = Put(@, next_id, st.unique_id),
                         !.callsigns =
                             IF next_id \in DOMAIN next_flight.callsigns
                             THEN Put(@, st.unique_id, next_flight.callsigns[next_id])
                             ELSE @,
                         !.panic = \/ /\ next_id \in DOMAIN next_flight.callsigns
                                      /\ st.unique_id \in DOMAIN st.callsigns
                                   \/ st.checks /\ st.unique_id = I32_MAX,
                         !.unique_id = WrappingInc(@)]
         IN BindEntities(self, next_flight, order_prev, order_next, k + 1,
                         IF closest # <<>> THEN bound ELSE fresh)

\* A copy that leaves the radar targets as next_flight has them
RewriteTargetsKeeping(updates, next_to_previous_ids) == updates

\* flt.rs 260-269: the position updates of next_flight with their radar
\* targets sent through next_to_previous_ids
RewriteTargets(updates, next_to_previous_ids) ==
    [i \in 1..Len(updates) |->
        [updates[i] EXCEPT !.radar_target = Lookup(next_to_previous_ids, @, -1)]]

\* flt.rs 237-270: the updates of the entities in sources, in turn
RECURSIVE CopiedUpdates(_, _, _)
CopiedUpdates(next_flight, next_to_previous_ids, sources) ==
    IF sources = <<>> THEN <<>>
    ELSE RewriteTargets(PositionData(next_flight, Head(sources)).position_updates,
                        next_to_previous_ids)
         \o CopiedUpdates(next_flight, next_to_previous_ids, Tail(sources))

\* A second loop that replaces the updates of a matched entity
CopyEntitiesReplacing(self, next_flight, next_to_previous_ids, order_next) ==
    LET targets == {next_to_previous_ids[n] : n \in DOMAIN next_flight.entities}
        sources(p) ==
            LET goes_to_p(n) == next_to_previous_ids[n] = p
            IN SelectSeq(order_next, goes_to_p)
        entry(p) ==
            IF p \in DOMAIN self.entities THEN self.entities[p]
            ELSE LET from == PositionData(next_flight, Head(sources(p)))
                 IN [position_data |-> <<[from EXCEPT !.position_updates = <<>>]>>,
                     events |-> next_flight.entities[Head(sources(p))].events]
        extended(p) ==
            [entry(p) EXCEPT !.position_data[1].position_updates =
                CopiedUpdates(next_flight, next_to_previous_ids, sources(p))]
    IN [p \in (DOMAIN self.entities) \cup targets |->
            IF p \in targets THEN extended(p) ELSE self.entities[p]]

\* flt.rs 237-270: the second loop of merge_entities, which visits the
\* entities of next_flight in the order of the first
CopyEntities(self, next_flight, next_to_previous_ids, order_next) ==
    LET targets == {next_to_previous_ids[n] : n \in DOMAIN next_flight.entities}
        sources(p) ==
            LET goes_to_p(n) == next_to_previous_ids[n] = p
            IN SelectSeq(order_next, goes_to_p)
        entry(p) ==
            IF p \in DOMAIN self.entities THEN self.entities[p]
            ELSE LET from == PositionData(next_flight, Head(sources(p)))
                 IN [position_data |-> <<[from EXCEPT !.position_updates = <<>>]>>,
                     events |-> next_flight.entities[Head(sources(p))].events]
        extended(p) ==
            [entry(p) EXCEPT !.position_data[1].position_updates =
                @ \o CopiedUpdates(next_flight, next_to_previous_ids, sources(p))]
    IN [p \in (DOMAIN self.entities) \cup targets |->
            IF p \in targets THEN extended(p) ELSE self.entities[p]]

\* flt.rs 164-278
merge_entities(self, next_flight, unique_id, order_prev, order_next, overflow_checks) ==
    LET st == BindEntities(self, next_flight, order_prev, order_next, 1,
                  [used |-> {}, found |-> {}, ids |-> EmptyMap,
                   callsigns |-> self.callsigns,
                   unique_id |-> unique_id, panic |-> FALSE,
                   checks |-> overflow_checks])
    IN IF st.panic
       THEN [flight |-> self, unique_id |-> st.unique_id, ids |-> st.ids,
             found |-> st.found, panic |-> TRUE]
       ELSE [flight |-> [self EXCEPT
                            !.callsigns = st.callsigns,
                            !.entities = CopyEntities(self, next_flight, st.ids, order_next)],
             unique_id |-> st.unique_id, ids |-> st.ids, found |-> st.found,
             panic |-> FALSE]

\* flt.rs 290-301
SameFeature(next_feature, previous_feature) ==
    /\ next_feature.kind = previous_feature.kind
    /\ next_feature.slot = previous_feature.slot
    /\ next_feature.special_flags = previous_feature.special_flags
    /\ next_feature.x = previous_feature.x
    /\ next_feature.y = previous_feature.y
    /\ next_feature.z = previous_feature.z
    /\ next_feature.pitch = previous_feature.pitch
    /\ next_feature.roll = previous_feature.roll
    /\ next_feature.yaw = previous_feature.yaw

\* flt.rs 286-326: the first loop of merge_features from the k-th feature
\* of next_flight on; st is [ids, callsigns, unique_id, panic, checks]
RECURSIVE BindFeatures(_, _, _, _, _, _)
BindFeatures(self, next_flight, forder_prev, forder_next, k, st) ==
    IF k > Len(forder_next) \/ st.panic THEN st
    ELSE LET next_id == forder_next[k]
             matches == {i \in 1..Len(forder_prev) :
                            SameFeature(next_flight.features[next_id],
                                        self.features[forder_prev[i]])}
             matched == [st EXCEPT !.ids =
                 Put(@, next_id,
                     forder_prev[CHOOSE i \in matches : \A j \in matches : i <= j])]
             fresh == [st EXCEPT
                         !.ids = Put(@, next_id, st.unique_id),
                         !.callsigns =
                             IF next_id \in DOMAIN next_flight.callsigns
                             THEN Put(@, st.unique_id, next_flight.callsigns[next_id])
                             ELSE @,
                         !.panic = \/ /\ next_id \in DOMAIN next_flight.callsigns
                                      /\ st.unique_id \in DOMAIN st.callsigns
                                   \/ st.checks /\ st.unique_id = I32_MAX,
                         !.unique_id = WrappingInc(@)]
         IN BindFeatures(self, next_flight, forder_prev, forder_next, k + 1,
                         IF matches # {} THEN matched ELSE fresh)

\* flt.rs 331-342: the features of next_flight that are new to self
CopyFeatures(self, next_flight, next_to_previous_ids, starting_uid) ==
    LET new == {n \in DOMAIN next_flight.features :
                   next_to_previous_ids[n] >= starting_uid}
        source(p) == CHOOSE n \in new : next_to_previous_ids[n] = p
    IN [p \in (DOMAIN self.features) \cup {next_to_previous_ids[n] : n \in new} |->
            IF p \in DOMAIN self.features THEN self.features[p]
            ELSE [next_flight.features[source(p)] EXCEPT
                     !.lead_uid = next_to_previous_ids[source(p)]]]

\* flt.rs 346-353
CopyFeatureEvents(events, next_to_previous_ids) ==
    [i \in 1..Len(events) |->
        [events[i] EXCEPT !.feature_uid = next_to_previous_ids[@]]]

\* flt.rs 280-361
merge_features(self, next_flight, unique_id, forder_prev, forder_next, overflow_checks) ==
    LET starting_uid == unique_id
        st == BindFeatures(self, next_flight, forder_prev, forder_next, 1,
                  [ids |-> EmptyMap, callsigns |-> self.callsigns,
                   unique_id |-> unique_id, panic |-> FALSE,
                   checks |-> overflow_checks])
    IN IF \/ st.panic
          \/ \E n \in DOMAIN st.ids : /\ st.ids[n] >= starting_uid
                                      /\ st.ids[n] \in DOMAIN self.features
          \/ \E i \in 1..Len(next_flight.feature_events) :
                next_flight.feature_events[i].feature_uid \notin DOMAIN st.ids
       THEN [flight |-> self, unique_id |-> st.unique_id, ids |-> st.ids, panic |-> TRUE]
       ELSE [flight |-> [self EXCEPT
                            !.callsigns = st.callsigns,
                            !.features = CopyFeatures(self, next_flight, st.ids, starting_uid),
                            !.feature_events =
                                @ \o CopyFeatureEvents(next_flight.feature_events, st.ids)],
             unique_id |-> st.unique_id, ids |-> st.ids, panic |-> FALSE]

MergeRes(f, result, entity_ids, found, feature_ids) ==
    [flight |-> f, result |-> result, entity_ids |-> entity_ids,
     found |-> found, feature_ids |-> feature_ids]

\* A guard that refuses any later start
TooFarApartAtAll(dt) == FGt(dt, 0)

\* flt.rs 132: the guard on the gap between the two recordings
TooFarApart(dt) == FGt(dt, 1)

\* flt.rs 149-152: the largest uid of the entities and features of self
MaxKey(self) == Max(SetMax(DOMAIN self.entities), SetMax(DOMAIN self.features))

\* flt.rs 148-155: the start of the id cursor
UniqueId(self) == WrappingInc(MaxKey(self))

\* a refusal that returns after the assignments of flt.rs 145-146
RefuseAfterStart(self, next_flight) ==
    MergeRes([self EXCEPT !.corrupted = self.corrupted \/ next_flight.corrupted,
                          !.end_time = next_flight.end_time],
             "false", EmptyMap, {}, EmptyMap)

\* flt.rs 119-122, 131-138: return false before self is assigned to
Refuse(self, next_flight) == MergeRes(self, "false", EmptyMap, {}, EmptyMap)

\* flt.rs 105-162; the result is "true", "false" or "panic".  overflow_checks
\* tells whether the build panics on an i32 overflow or wraps.
merge(self, next_flight, order_prev, order_next, forder_prev, forder_next, overflow_checks) ==
    IF self.corrupted THEN Refuse(self, next_flight)
    ELSE IF TooFarApart(FSub(next_flight.start_time, self.end_time))
    THEN Refuse(self, next_flight)
    ELSE
    LET started == [self EXCEPT !.corrupted = self.corrupted \/ next_flight.corrupted,
                                !.end_time = next_flight.end_time]
    IN IF DOMAIN self.entities = {} \/ DOMAIN self.features = {}
       THEN MergeRes(started, "panic", EmptyMap, {}, EmptyMap)
       ELSE IF overflow_checks /\ MaxKey(self) = I32_MAX
       THEN MergeRes(started, "panic", EmptyMap, {}, EmptyMap)
       ELSE
       LET unique_id == UniqueId(self)
           e == merge_entities(started, next_flight, unique_id, order_prev,
                               order_next, overflow_checks)
           f == merge_features(e.flight, next_flight, e.unique_id,
                               forder_prev, forder_next, overflow_checks)
       IN IF e.panic THEN MergeRes(e.flight, "panic", e.ids, e.found, EmptyMap)
          ELSE IF f.panic THEN MergeRes(f.flight, "panic", e.ids, e.found, f.ids)
          ELSE MergeRes([f.flight EXCEPT !.general_events =
                                            @ \o next_flight.general_events],
                        "true", e.ids, e.found, f.ids)

----------------------------------------------------------------------------
(* run (main.rs 57-112): parse every input, then the merge loop *)

\* main.rs 65-77: the flight of one input is collected, the next is parsed
Collect ==
    /\ pc = "done"
    /\ Len(flights) < args.inputs
    /\ flights' = Append(flights, flight)
    /\ flight' = NewFlight
    /\ good' = NewFlight
    /\ last' = NoRecord
    /\ nread' = 0
    /\ seen' = <<>>
    /\ pc' = IF Len(flights') = args.inputs THEN "loop" ELSE "reading"
    /\ UNCHANGED <<writeVars, args, starting_index, next_index, outputs,
                   deleted, exit_code, attempt, wf, consumed>>

\* main.rs 87-104: an iteration of the loop whose right side is not empty
\* calls merge; a refusal goes on to write_flight
TryMerge ==
    /\ pc = "loop"
    /\ starting_index < Len(flights)
    /\ next_index < Len(flights)
    /\ LET starting == flights[starting_index + 1]
           right == flights[next_index + 1]
       IN \E order_prev \in Orders(DOMAIN starting.entities),
             order_next \in Orders(DOMAIN right.entities),
             forder_prev \in Orders(DOMAIN starting.features),
             forder_next \in Orders(DOMAIN right.features),
             overflow_checks \in BOOLEAN :
            \E res \in {merge(starting, right, order_prev, order_next,
                             forder_prev, forder_next, overflow_checks)} :
               /\ attempt' = [result |-> res.result, self |-> starting,
                              next_flight |-> right, merged |-> res.flight,
                              entity_ids |-> res.entity_ids,
                              found |-> res.found,
                              feature_ids |-> res.feature_ids,
                              order_next |-> order_next]
               /\ flights' = [flights EXCEPT ![starting_index + 1] = res.flight]
               /\ next_index' = IF res.result = "true" THEN next_index + 1
                                ELSE next_index
               /\ pc' = CASE res.result = "true" -> "loop"
                          [] res.result = "false" -> "write"
                          [] res.result = "panic" -> "panicked"
               /\ exit_code' = IF res.result = "panic" THEN 101 ELSE exit_code
    /\ UNCHANGED <<parseVars, writeVars, args, starting_index, outputs, deleted, wf, consumed>>

\* main.rs 92: the right side is empty, the run is written
LastRun ==
    /\ pc = "loop"
    /\ starting_index < Len(flights)
    /\ next_index >= Len(flights)
    /\ pc' = "write"
    /\ UNCHANGED <<parseVars, writeVars, runVars>>

\* main.rs 87, 107-111: every input is converted, run returns Ok
LoopExit ==
    /\ pc = "loop"
    /\ starting_index >= Len(flights)
    /\ pc' = "exited"
    /\ exit_code' = 0
    /\ UNCHANGED <<parseVars, writeVars, args, flights, starting_index,
                   next_index, outputs, deleted, attempt, wf, consumed>>

\* main.rs 71: an input cannot be opened or mapped; main exits with 1
OpenFails ==
    /\ pc = "reading"
    /\ nread = 0
    /\ Len(flights) < args.inputs
    /\ pc' = "exited"
    /\ exit_code' = 1
    /\ UNCHANGED <<parseVars, writeVars, args, flights, starting_index,
                   next_index, outputs, deleted, attempt, wf, consumed>>

\* Whether a task of vhs::write panics on a flight (vhs.rs 210-264)
VhsWritePanics(f) ==
    LET m == IdMappingNew(f)
        h == HeaderNew(f, Len(m.callsign_ids))
        indexes == IndexOf(m.features)
        e == write_entities(f, m.entities, h)
        t == write_features(f, m.features, indexes, e.ret, h)
        p == SectionBytes(write_entity_positions(f, m.entities, h.position_offset))
                + SectionBytes(write_feature_positions(f, m.features))
        v == SectionBytes(write_entity_events(f, m.entities, h.entity_event_offset))
    IN \/ e.panic
       \/ t.panic
       \/ h.position_offset + p # h.entity_event_offset
       \/ h.entity_event_offset + v # h.general_event_offset
       \/ write_feature_events(f, indexes).panic
       \/ write_general_events(f).panic

\* A refusal that --force does not lift
RefusesDespiteForce(force, corrupted, same_name, exists) ==
    corrupted /\ (same_name \/ exists)

\* main.rs 174-186: a corrupted flight does not overwrite without --force
Refuses(force, corrupted, same_name, exists) ==
    ~force /\ corrupted /\ (same_name \/ exists)

\* main.rs 147-213: what write_flight does with a flight in an environment
\* env = [io, same_name, exists, removed]: io is "ok", "meta" (output_name or
\* fs::metadata fails) or "write" (open_vhs or vhs::write fails); same_name:
\* inputs[0] == output; exists: output.exists(); removed: how many inputs
\* remove_file removes before it fails
write_flight(count, f, a, env) ==
    IF env.io = "meta" THEN "error"
    ELSE IF Refuses(a.force, f.corrupted, env.same_name, env.exists) THEN "refused"
    ELSE IF env.io = "write" THEN "error"
    ELSE IF VhsWritePanics(f) THEN "panic"
    ELSE IF f.corrupted THEN "corrupted"
    ELSE IF a.delete /\ env.removed < count THEN "remove_failed"
    ELSE "ok"

\* Inputs removed after every write, asked for or not
RemovedAfterAnyWrite(first, a, outcome, env) ==
    IF outcome \in {"ok", "remove_failed", "corrupted"}
    THEN {first + k : k \in 0..(env.removed - 1)}
    ELSE {}

\* main.rs 204-210: the inputs remove_file has removed when write_flight
\* returns
Removed(first, a, outcome, env) ==
    IF a.delete /\ outcome \in {"ok", "remove_failed"}
    THEN {first + k : k \in 0..(env.removed - 1)}
    ELSE {}

Environments(count) ==
    [io : {"ok", "meta", "write"}, same_name : BOOLEAN, exists : BOOLEAN,
     removed : 0..count]

\* main.rs 99-101 with write_flight and the exits of main.rs 50-55, 202
WriteFlight ==
    /\ pc = "write"
    /\ LET f == flights[starting_index + 1]
           count == next_index - starting_index
       IN \E env \in Environments(count) :
            \E outcome \in {write_flight(count, f, args, env)} :
            LET written == outcome \in {"corrupted", "remove_failed", "ok"}
            IN /\ wf' = [outcome |-> outcome, corrupted |-> f.corrupted,
                         io |-> env.io, same_name |-> env.same_name,
                         exists |-> env.exists]
               /\ outputs' = IF written
                             THEN Append(outputs, [first |-> starting_index,
                                                   last |-> next_index - 1,
                                                   flight |-> f])
                             ELSE outputs
               /\ deleted' = deleted \cup Removed(starting_index, args, outcome, env)
               /\ exit_code' = CASE outcome \in {"error", "refused", "remove_failed"} -> 1
                                 [] outcome = "panic" -> 101
                                 [] outcome = "corrupted" -> 2
                                 [] outcome = "ok" -> exit_code
               /\ pc' = CASE outcome = "ok" -> "loop"
                          [] outcome = "panic" -> "panicked"
                          [] OTHER -> "exited"
               /\ starting_index' = IF outcome = "ok" THEN next_index ELSE starting_index
               /\ next_index' = IF outcome = "ok" THEN next_index + 1 ELSE next_index
    /\ UNCHANGED <<parseVars, writeVars, args, flights, attempt, consumed>>

----------------------------------------------------------------------------
(* Properties of the parser *)

Returned == pc = "done"

\* C1: every entity of the flight that parse returns has position data with
\* at least one position update, also when parsing stopped on an error.
C1_PostParseInvariant ==
    Returned =>
        \A uid \in DOMAIN flight.entities :
            /\ flight.entities[uid].position_data # <<>>
            /\ Len(flight.entities[uid].position_data[1].position_updates) >= 1

\* A corrupted flight is returned, an event-only entity was removed from it
\* and an entity with positions is left
C1_Witness ==
    /\ Returned
    /\ flight.corrupted
    /\ (DOMAIN good.entities) \ (DOMAIN flight.entities) # {}
    /\ DOMAIN flight.entities # {}

\* The records on which reading stops with an error
StopsOnError(tok) ==
    /\ tok \notin {NoRecord, EndOfInput}
    /\ \/ tok.cut \in {"time", "body"}
       \/ tok.type \notin 0..13
       \/ tok.type = REC_TYPE_CALLSIGN_LIST /\ tok.body.count < 0

\* C2: corrupted is set exactly when reading stopped on an error (not at the
\* end of the input on a record boundary); once it is set the loop has been
\* left, and the entities, features and events of the complete records
\* before the error are what the returned flight holds.
C2_CorruptedIffError ==
    /\ flight.corrupted <=> StopsOnError(last)
    /\ flight.corrupted => pc \in {"cleanup", "done"}
    /\ (Returned /\ flight.corrupted) =>
          /\ flight.entities = Cleanup(good).entities
          /\ flight.features = good.features
          /\ flight.general_events = good.general_events
          /\ flight.feature_events = good.feature_events

\* A negative callsign count ends the parse of a flight that has an entity,
\* a feature and a feature event
C2_Witness ==
    /\ Returned
    /\ flight.corrupted
    /\ last.type = REC_TYPE_CALLSIGN_LIST
    /\ last.cut = "none"
    /\ DOMAIN flight.entities # {}
    /\ DOMAIN flight.features # {}

\* C28: when reading has stopped on a record that failed to decode, the
\* flight is, but for corrupted, what it was after the last record that was
\* decoded to its end.
C28_FailedRecordChangesNothing ==
    (pc = "cleanup" /\ flight.corrupted) =>
        [flight EXCEPT !.corrupted = good.corrupted] = good

----------------------------------------------------------------------------
(* Properties of the writer *)

Writing == pc \in {"writing", "written"}

\* The offset the planner reserved for the end of each section
\* (the start of the next one)
PlannedEnd(s) ==
    CASE s = "header" -> ENTITY_OFFSET
      [] s = "entities" -> header.feature_offset
      [] s = "features" -> header.position_offset
      [] s = "entity_positions" ->
            header.position_offset
                + ENTITY_UPDATE_SIZE * (header.position_count - header.feature_count)
      [] s = "feature_positions" -> header.entity_event_offset
      [] s = "entity_events" -> header.general_event_offset
      [] s = "general_events" -> header.general_event_trailer_offset
      [] s = "trailers" -> header.feature_event_offset
      [] s = "feature_events" -> header.text_event_offset
      [] s = "callsigns" -> header.file_length

\* The section written right before s
Before(s) ==
    CASE s = "entities" -> "header"
      [] s = "features" -> "entities"
      [] s = "entity_positions" -> "features"
      [] s = "feature_positions" -> "entity_positions"
      [] s = "entity_events" -> "feature_positions"
      [] s = "general_events" -> "entity_events"
      [] s = "trailers" -> "general_events"
      [] s = "feature_events" -> "trailers"
      [] s = "callsigns" -> "feature_events"

\* The write position observed at the end of a written section: sections
\* that share a writer continue where the one before ended, the others
\* start where their slice starts
RECURSIVE ObservedEnd(_)
ObservedEnd(s) ==
    SectionBytes(file[s]) +
        (IF s = "header" THEN 0
         ELSE IF s \in {"feature_positions", "trailers"}
              THEN ObservedEnd(Before(s))
              ELSE PlannedEnd(Before(s)))

EachRecord(s, bytes) == \A i \in 1..Len(file[s]) : RecordBytes(file[s][i]) = bytes

TotalUpdates ==
    SumOver([u \in DOMAIN flight.entities |-> Len(Updates(flight, u))],
            DOMAIN flight.entities)

TotalEvents ==
    SumOver([u \in DOMAIN flight.entities |-> Len(flight.entities[u].events)],
            DOMAIN flight.entities)

RecordSizes(s) ==
    CASE s = "header" -> Len(file[s]) = 1 /\ EachRecord(s, 80)
      [] s = "entities" ->
            Len(file[s]) = Cardinality(DOMAIN flight.entities) /\ EachRecord(s, 36)
      [] s = "features" ->
            Len(file[s]) = Cardinality(DOMAIN flight.features) /\ EachRecord(s, 36)
      [] s = "entity_positions" -> Len(file[s]) = TotalUpdates /\ EachRecord(s, 41)
      [] s = "feature_positions" ->
            Len(file[s]) = Cardinality(DOMAIN flight.features) /\ EachRecord(s, 41)
      [] s = "entity_events" -> Len(file[s]) = TotalEvents /\ EachRecord(s, 41)
      [] s = "general_events" ->
            Len(file[s]) = Len(flight.general_events) /\ EachRecord(s, 65)
      [] s = "trailers" ->
            Len(file[s]) = Len(flight.general_events) /\ EachRecord(s, 8)
      [] s = "feature_events" ->
            Len(file[s]) = Len(flight.feature_events) /\ EachRecord(s, 16)
      [] s = "callsigns" ->
            SectionBytes(file[s]) = 4 + 20 * Len(id_map.callsign_ids)

\* C3: every section writer emits exactly the bytes the planner reserved
\* (80, 36, 41, 65 + 8, 16 and 4 + 20 K), the position at the end of every
\* section is the planned offset of the next one, the last one ends at
\* file_length, and no position assertion of the writer fails.
C3_LayoutConsistency ==
    /\ pc # "wpanicked"
    /\ Writing =>
         \A s \in DOMAIN file :
            /\ RecordSizes(s)
            /\ ObservedEnd(s) = PlannedEnd(s)
    /\ pc = "written" => ObservedEnd("callsigns") = header.file_length

\* A file with an entity, a feature and a callsign has been written out
C3_Witness ==
    /\ pc = "written"
    /\ DOMAIN flight.entities # {}
    /\ DOMAIN flight.features # {}
    /\ Len(id_map.callsign_ids) > 0

\* The position section of the file and the index of the record at an offset
Positions == file["entity_positions"] \o file["feature_positions"]

RECURSIVE OffsetOf(_, _, _)
OffsetOf(recs, base, k) ==
    IF k = 1 THEN base ELSE OffsetOf(recs, base, k - 1) + RecordBytes(recs[k - 1])

IndexAt(recs, base, off) ==
    LET found == {k \in 1..Len(recs) : OffsetOf(recs, base, k) = off}
    IN IF found = {} THEN 0 ELSE CHOOSE k \in found : TRUE

\* The indexes of the records visited from an offset along a link field;
\* 0 stands for an offset at which no record starts
RECURSIVE Chain(_, _, _, _, _)
Chain(recs, base, off, link, fuel) ==
    IF off = 0 \/ fuel = 0 THEN <<>>
    ELSE LET k == IndexAt(recs, base, off)
         IN IF k = 0 THEN <<0>>
            ELSE <<k>> \o Chain(recs, base, Get(recs[k], link), link, fuel - 1)

ForwardChain(i) ==
    Chain(Positions, header.position_offset,
          Get(file["entities"][i], "first_position_offset"),
          "next_offset", Len(Positions) + 1)

BackwardChain(i) ==
    LET fwd == ForwardChain(i)
    IN Chain(Positions, header.position_offset,
             OffsetOf(Positions, header.position_offset, fwd[Len(fwd)]),
             "prev_offset", Len(Positions) + 1)

SameUpdate(rec, u) ==
    /\ Get(rec, "time") = u.time
    /\ Get(rec, "x") = u.x /\ Get(rec, "y") = u.y /\ Get(rec, "z") = u.z
    /\ Get(rec, "pitch") = u.pitch /\ Get(rec, "roll") = u.roll
    /\ Get(rec, "yaw") = u.yaw

\* C4: from the first_position_offset of an entity's record, next_offset
\* visits exactly the entity's n updates in input order and ends with 0;
\* prev_offset from the last visits the same records back to 0; the chains
\* of two entities share no record.
C4_PositionChains ==
    (Writing /\ {"entities", "entity_positions"} \subseteq DOMAIN file) =>
        \A i \in 1..Len(id_map.entities) :
            LET updates == Updates(flight, id_map.entities[i].original)
                fwd == ForwardChain(i)
                bwd == BackwardChain(i)
            IN /\ Len(fwd) = Len(updates)
               /\ \A k \in 1..Len(fwd) :
                     /\ fwd[k] # 0
                     /\ SameUpdate(Positions[fwd[k]], updates[k])
               /\ Len(bwd) = Len(fwd)
               /\ \A k \in 1..Len(fwd) : bwd[k] = fwd[Len(fwd) + 1 - k]
               /\ \A j \in 1..Len(id_map.entities) :
                     j # i => \A k \in 1..Len(fwd) :
                                 \A l \in 1..Len(ForwardChain(j)) :
                                     ForwardChain(j)[l] # fwd[k]

\* Two entities are written, the first of them with two chained updates
C4_Witness ==
    /\ pc = "written"
    /\ Len(id_map.entities) = 2
    /\ Len(ForwardChain(1)) = 2
    /\ Len(ForwardChain(2)) = 1

\* The objects of the flight, tagged, with their remaps
Objects ==
    {[id |-> u, kind |-> "Entity"] : u \in DOMAIN flight.entities}
    \cup {[id |-> u, kind |-> "Feature"] : u \in DOMAIN flight.features}

RemapsOf(o) ==
    LET m == IF o.kind = "Entity" THEN id_map.entities ELSE id_map.features
    IN {m[i].new : i \in {j \in 1..Len(m) : m[j].original = o.id}}

NewId(o) == CHOOSE n \in RemapsOf(o) : TRUE

\* C5: the output ids are a bijection from the entities and features onto
\* 0..N-1, an object has an entry in flight.callsigns exactly when its output
\* id is below K, and the i-th callsign record written is the callsign of the
\* object whose output id is i.
C5_CallsignPacking ==
    (Writing /\ "callsigns" \in DOMAIN file) =>
        LET N == Cardinality(Objects)
            K == Get(file["callsigns"][1], "count")
        IN /\ Len(id_map.entities) + Len(id_map.features) = N
           /\ \A o \in Objects : Cardinality(RemapsOf(o)) = 1
           /\ {NewId(o) : o \in Objects} = 0..(N - 1)
           /\ \A o, q \in Objects : NewId(o) = NewId(q) => o = q
           /\ \A o \in Objects : (o.id \in DOMAIN flight.callsigns) <=> (NewId(o) < K)
           /\ Len(file["callsigns"]) = K + 1
           /\ \A o \in Objects :
                 NewId(o) < K =>
                    LET rec == file["callsigns"][NewId(o) + 2]
                    IN /\ Get(rec, "label") = flight.callsigns[o.id].label
                       /\ Get(rec, "team_color") = flight.callsigns[o.id].team_color

\* An entity with a callsign got an output id below that of an entity with
\* a smaller uid and no callsign, and the callsign section is written
C5_Witness ==
    /\ Writing
    /\ "callsigns" \in DOMAIN file
    /\ \E o, q \in Objects :
          /\ o.kind = "Entity" /\ q.kind = "Entity"
          /\ o.id > q.id
          /\ NewId(o) < NewId(q)
          /\ o.id \in DOMAIN flight.callsigns

----------------------------------------------------------------------------
(* Merging the flights of two inputs *)

MergeTokens ==
    {Tok(REC_TYPE_AIRCRAFT_POSITION, "none", 0, PositionBody(1, 0, 0, -1)),
     Tok(REC_TYPE_AIRCRAFT_POSITION, "none", 0, PositionBody(1, 1, 6000, 0)),
     Tok(REC_TYPE_AIRCRAFT_POSITION, "none", 3, PositionBody(1, 0, 100, 1)),
     Tok(REC_TYPE_FEATURE_POSITION, "none", 0, FeatureBody(1, 1, -1, 0)),
     Tok(REC_TYPE_FEATURE_POSITION, "none", 0, FeatureBody(1, 2, 1, 5)),
     Tok(REC_TYPE_SWITCH, "none", 0, SwitchBody(0)),
     Tok(REC_TYPE_FEATURE_STATUS, "none", 0, StatusBody(1)),
     Tok(REC_TYPE_TRACER_START, "none", 0, SoundBody(0)),
     Tok(REC_TYPE_CALLSIGN_LIST, "none", 0,
         CallsignBody(3, <<Callsign(1), Callsign(2), DefaultCallsign>>)),
     Tok(REC_TYPE_TOD_OFFSET, "none", 7, NoBody),
     Tok(REC_TYPE_AIRCRAFT_POSITION, "body", 1, NoBody)}

TwoInputs == [force |-> FALSE, delete |-> FALSE, inputs |-> 2]

MergeInit == ParseStart /\ WriteIdle /\ RunStart(TwoInputs)

MergeNext ==
    \/ \E tok \in MergeTokens :
          ReadRecord(tok, IF flights = <<>> THEN MaxLeftRecords ELSE MaxRightRecords)
    \/ ReadEof
    \/ ParseCleanup
    \/ Collect
    \/ TryMerge

SpecMerge == MergeInit /\ [][MergeNext]_vars

\* Two inputs whose entities lie at several distances from one another
BindTokens ==
    {Tok(REC_TYPE_AIRCRAFT_POSITION, "none", 0, PositionBody(1, 0, 0, -1)),
     Tok(REC_TYPE_AIRCRAFT_POSITION, "none", 1, PositionBody(1, 0, 100, -1)),
     Tok(REC_TYPE_AIRCRAFT_POSITION, "none", 0, PositionBody(1, 2, 50, -1)),
     Tok(REC_TYPE_AIRCRAFT_POSITION, "none", 0, PositionBody(1, 1, 6000, -1)),
     Tok(REC_TYPE_AIRCRAFT_POSITION, "none", 0, PositionBody(2, I32_MAX, 0, -1)),
     Tok(REC_TYPE_AIRCRAFT_POSITION, "none", 0, PositionBody(2, I32_MIN, 6000, -1)),
     Tok(REC_TYPE_FEATURE_POSITION, "none", 0, FeatureBody(1, 5, -1, 0)),
     Tok(REC_TYPE_FEATURE_POSITION, "none", 0, FeatureBody(1, 3, -1, 7)),
     Tok(REC_TYPE_CALLSIGN_LIST, "none", 0,
         CallsignBody(4, <<Callsign(1), Callsign(2), DefaultCallsign, Callsign(3)>>))}

BindNext ==
    \/ \E tok \in BindTokens :
          ReadRecord(tok, IF flights = <<>> THEN MaxLeftRecords ELSE MaxRightRecords)
    \/ ReadEof
    \/ ParseCleanup
    \/ Collect
    \/ TryMerge

SpecBind == MergeInit /\ [][BindNext]_vars

\* Two inputs of which the first has a feature with the uid I32_MAX - 1,
\* so that the id cursor of a merge starts at I32_MAX
CursorTokens ==
    {Tok(REC_TYPE_AIRCRAFT_POSITION, "none", 0, PositionBody(1, 0, 0, -1)),
     Tok(REC_TYPE_FEATURE_POSITION, "none", 0, FeatureBody(1, I32_MAX - 1, -1, 0)),
     Tok(REC_TYPE_FEATURE_POSITION, "none", 0, FeatureBody(1, 1, -1, 5)),
     Tok(REC_TYPE_FEATURE_POSITION, "none", 0, FeatureBody(1, 2, -1, 7)),
     Tok(REC_TYPE_FEATURE_STATUS, "none", 0, StatusBody(2))}

CursorNext ==
    \/ \E tok \in CursorTokens : ReadRecord(tok, MaxCursorRecords)
    \/ ReadEof
    \/ ParseCleanup
    \/ Collect
    \/ TryMerge

SpecCursor == MergeInit /\ [][CursorNext]_vars

\* The bytes a written section occupies, as <<first, byte after the last>>
WrittenRange(s) == <<ObservedEnd(s) - SectionBytes(file[s]), ObservedEnd(s)>>

\* What the task of section s writes for a flight, whatever the order of
\* the tasks
FileOf(f, s) ==
    LET m == IdMappingNew(f)
        h == HeaderNew(f, Len(m.callsign_ids))
        indexes == IndexOf(m.features)
        e == write_entities(f, m.entities, h)
        g == write_general_events(f)
    IN    CASE s = "header" -> HeaderWrite(h, f)
            [] s = "entities" -> e.recs
            [] s = "features" -> write_features(f, m.features, indexes, e.ret, h).recs
            [] s = "entity_positions" ->
                  write_entity_positions(f, m.entities, h.position_offset)
            [] s = "feature_positions" -> write_feature_positions(f, m.features)
            [] s = "entity_events" ->
                  write_entity_events(f, m.entities, h.entity_event_offset)
            [] s = "general_events" -> g.events
            [] s = "trailers" -> g.trailers
            [] s = "feature_events" -> write_feature_events(f, indexes).recs
            [] s = "callsigns" -> write_callsigns(f, m.callsign_ids)

\* The number of bytes of a slice
SliceBytes(sl, a) == sl[a][2] - sl[a][1]

\* C11: the slices of the tasks are disjoint and cover [0, file_length),
\* every section is written inside the slice of its task, the written file
\* is the same whatever the order of the tasks, and the mapping is flushed
\* only when every task is done
C11_DisjointSlices ==
    Writing =>
        LET sl == Slices(header)
        IN /\ \A a \in DOMAIN sl : sl[a][1] <= sl[a][2]
           /\ \A a, b \in DOMAIN sl :
                 a # b => (sl[a][2] <= sl[b][1] \/ sl[b][2] <= sl[a][1])
           /\ \A a \in DOMAIN sl : 0 <= sl[a][1] /\ sl[a][2] <= header.file_length
           /\ SumOver([a \in DOMAIN sl |-> SliceBytes(sl, a)], DOMAIN sl)
                 = header.file_length
           /\ \A s \in DOMAIN file :
                 /\ sl[SliceOf(s)][1] <= WrittenRange(s)[1]
                 /\ WrittenRange(s)[2] <= sl[SliceOf(s)][2]
                 /\ file[s] = FileOf(flight, s)
           /\ pc = "written" => DOMAIN file = Sections

\* a file with an entity, a feature and a general event has been flushed
C11_Witness ==
    /\ pc = "written"
    /\ file["entities"] # <<>>
    /\ file["features"] # <<>>
    /\ file["trailers"] # <<>>
    /\ header.file_length > ENTITY_OFFSET + 4

\* the trailer records of a file whose general events task is done
Trailers == file["trailers"]

\* C15: the trailers written are a permutation of the indices 0..n-1 of the
\* n general events, each with the stop of the event at its index, and
\* their stops never decrease
C15_TrailersSorted ==
    (pc \in {"writing", "written", "wpanicked"} /\ "trailers" \in DOMAIN file) =>
        LET n == Len(flight.general_events)
        IN /\ Len(Trailers) = n
           /\ {Get(Trailers[i], "index") : i \in 1..n} = 0..(n - 1)
           /\ \A i \in 1..n :
                 Get(Trailers[i], "stop") =
                     flight.general_events[Get(Trailers[i], "index") + 1].stop
           /\ \A i \in 1..(n - 1) :
                 FLe(Get(Trailers[i], "stop"), Get(Trailers[i + 1], "stop"))

\* the trailer of the second event, which stops first, is written first
C15_Witness ==
    /\ pc = "written"
    /\ Len(Trailers) >= 2
    /\ Get(Trailers[1], "index") = 1
    /\ Get(Trailers[1], "stop") < Get(Trailers[2], "stop")

\* The places (from 1) of the records of the feature section that describe
\* the feature with the original uid
FeatureRecordsOf(uid) ==
    {k \in 1..Len(id_map.features) : id_map.features[k].original = uid}

\* Every index written for a feature is the value of field(record) of the
\* record of the feature it refers to; field is "id" or "place"
FeatureIndexesAre(field) ==
    LET value(k) == IF field = "id" THEN Get(file["features"][k], "id") ELSE k - 1
    IN /\ "features" \in DOMAIN file =>
             \A k \in 1..Len(file["features"]) :
                 LET lead_uid == flight.features[id_map.features[k].original].lead_uid
                     lead_index == Get(file["features"][k], "lead_index")
                 IN /\ lead_index # -1 =>
                          \E j \in FeatureRecordsOf(lead_uid) : lead_index = value(j)
                    /\ lead_index = -1 <=> lead_uid \notin DOMAIN flight.features
       /\ ("features" \in DOMAIN file /\ "feature_events" \in DOMAIN file) =>
             \A i \in 1..Len(file["feature_events"]) :
                 \E j \in FeatureRecordsOf(flight.feature_events[i].feature_uid) :
                     Get(file["feature_events"][i], "feature_index") = value(j)

C26_ParseNeverPanics == pc # "panicked"

\* The position updates of the entities in the order of the entity section
RECURSIVE UpdatesFrom(_)
UpdatesFrom(k) ==
    IF k > Len(id_map.entities) THEN <<>>
    ELSE Updates(flight, id_map.entities[k].original) \o UpdatesFrom(k + 1)

\* The places (from 1) of the records of the entity section that describe
\* the entity with the original uid
EntityRecordsOf(uid) ==
    {k \in 1..Len(id_map.entities) : id_map.entities[k].original = uid}

\* Every radar_target_index written is the value of field of the record of
\* the entity it refers to; field is "id" or "place"
TargetIndexesAre(field) ==
    LET value(k) == IF field = "id" THEN Get(file["entities"][k], "id") ELSE k - 1
    IN ("entities" \in DOMAIN file /\ "entity_positions" \in DOMAIN file) =>
          /\ Len(file["entity_positions"]) = Len(UpdatesFrom(1))
          /\ \A i \in 1..Len(file["entity_positions"]) :
                LET radar_target == UpdatesFrom(1)[i].radar_target
                    index == Get(file["entity_positions"][i], "radar_target_index")
                IN /\ index # -1 =>
                         \E j \in EntityRecordsOf(radar_target) : index = value(j)
                   /\ index = -1 <=> radar_target \notin DOMAIN flight.entities

\* C27 as stated: in the written file every radar_target_index other than -1
\* is the new id in the first field of the record of the entity with the
\* update's radar_target as uid, and it is -1 exactly when the flight has no
\* such entity.
C27_TargetIsNewId == Writing => TargetIndexesAre("id")

\* C27: in the written file every radar_target_index other than -1 is the
\* place, counted from 0, of the record of the entity with the update's
\* radar_target as uid in the entity section, and it is -1 exactly when the
\* flight has no such entity.
C27_TargetIsPlace == Writing => TargetIndexesAre("place")

\* C27: a written file with a radar_target_index that refers to an entity
\* whose place in the entity section is not its new id
C27_Witness ==
    /\ pc = "written"
    /\ \E i \in 1..Len(file["entity_positions"]), j \in 1..Len(file["entities"]) :
          /\ Get(file["entity_positions"][i], "radar_target_index") = j - 1
          /\ UpdatesFrom(1)[i].radar_target = id_map.entities[j].original
          /\ Get(file["entities"][j], "id") # j - 1

\* C29: a step of the merge loop that ends in a refusal leaves every flight
\* the driver holds as it was, left side included; no step of the loop
\* changes a flight other than the left side of the run; and the flight
\* written after a refusal is the left side as it was before the attempt.
C29_RefusalLeavesFlights ==
    [][/\ (pc = "loop" /\ pc' = "write" /\ next_index < Len(flights)) =>
              /\ attempt'.result = "false"
              /\ attempt'.self = flights[starting_index + 1]
              /\ attempt'.merged = attempt'.self
              /\ flights' = flights
       /\ pc = "loop" =>
              /\ Len(flights') = Len(flights)
              /\ \A i \in 1..Len(flights) :
                    i # starting_index + 1 => flights'[i] = flights[i]
       /\ (pc = "write" /\ next_index < Len(flights) /\ outputs' # outputs) =>
              outputs'[Len(outputs')].flight = attempt.self]_vars

\* a run was refused its right side, which ends at another time than the
\* left side, and the left side was written as it stood before the attempt
C29_Witness ==
    /\ outputs # <<>>
    /\ attempt.result = "false"
    /\ outputs[Len(outputs)].flight = attempt.self
    /\ outputs[Len(outputs)].last + 1 < Len(flights)
    /\ flights[outputs[Len(outputs)].last + 2] = attempt.next_flight
    /\ DOMAIN attempt.self.entities # {}
    /\ attempt.next_flight.end_time # attempt.self.end_time

\* C30: a successful merge does not decrease the end time of the left side
\* and leaves its start time at or before its end time, so the total play
\* time of the merged flight is not negative and not below what it was.
C30_EndTimeGrows ==
    attempt.result = "true" =>
        /\ FLe(attempt.self.end_time, attempt.merged.end_time)
        /\ FLe(attempt.merged.start_time, attempt.merged.end_time)
        /\ FLe(FSub(attempt.self.end_time, attempt.self.start_time),
               FSub(attempt.merged.end_time, attempt.merged.start_time))

----------------------------------------------------------------------------
(* Properties of the callsign table *)

\* a CALLSIGN_LIST record has just been read to its end
CallsignListRead ==
    /\ pc = "reading"
    /\ nread >= 1
    /\ last.type = REC_TYPE_CALLSIGN_LIST

\* C18: after a CALLSIGN_LIST record of count entries the callsigns are
\* array[k] for exactly the uids k of the entities and features of the
\* flight with 0 <= k < count and array[k] not all zero; nothing of an
\* earlier table is left
C18_CallsignTable ==
    CallsignListRead =>
        LET array == last.body.array
            named == {k \in (DOMAIN flight.entities) \cup (DOMAIN flight.features) :
                         /\ 0 <= k
                         /\ k < last.body.count
                         /\ array[k + 1] # DefaultCallsign}
        IN /\ DOMAIN flight.callsigns = named
           /\ \A k \in named : flight.callsigns[k] = array[k + 1]

\* a list has named one object and left out one with a negative uid
C18_Witness ==
    /\ CallsignListRead
    /\ flight.callsigns # EmptyMap
    /\ \E k \in DOMAIN flight.features : k < 0

----------------------------------------------------------------------------
(* Properties of the feature table *)

\* C14: no step of parse changes or removes a feature that is defined, and
\* a FEATURE_POSITION record for a defined uid leaves the whole table as it
\* was, so the first definition is the one returned
C14_FirstFeatureWins ==
    [][/\ \A uid \in DOMAIN flight.features :
             /\ uid \in DOMAIN flight'.features
             /\ flight'.features[uid] = flight.features[uid]
       /\ (/\ nread' = nread + 1
           /\ last'.type = REC_TYPE_FEATURE_POSITION
           /\ last'.cut = "none"
           /\ last'.body.uid \in DOMAIN flight.features) =>
                flight'.features = flight.features]_vars

\* a FEATURE_POSITION record with another body for a defined uid has been
\* read and the table still holds the first body
C14_Witness ==
    /\ nread >= 2
    /\ last.type = REC_TYPE_FEATURE_POSITION
    /\ last.cut = "none"
    /\ last.body.uid \in DOMAIN flight.features
    /\ flight.features[last.body.uid].x # last.body.x

----------------------------------------------------------------------------
(* Properties of start_time and end_time *)

NoNaN == \A i \in 1..Len(seen) : seen[i] # NAN

Least == CHOOSE t \in {seen[i] : i \in 1..Len(seen)} : \A i \in 1..Len(seen) : t <= seen[i]

Greatest ==
    CHOOSE t \in {seen[i] : i \in 1..Len(seen)} : \A i \in 1..Len(seen) : t >= seen[i]

\* C12: a returned flight that has seen the timestamp of a record other
\* than TOD_OFFSET has start_time <= end_time
C12_StartBeforeEnd ==
    (Returned /\ seen # <<>>) => FLe(flight.start_time, flight.end_time)

\* C13 as stated: start_time is the least and end_time the greatest of the
\* timestamps seen, in whatever order they came
C13_MinAndMax ==
    (Returned /\ seen # <<>> /\ NoNaN) =>
        /\ flight.start_time = Least
        /\ flight.end_time = Greatest

\* the timestamps that stop start_time from being overwritten
NotBelowZero == {i \in 1..Len(seen) : ~FLt(seen[i], 0)}

Numbers == {seen[i] : i \in 1..Len(seen)} \ {NAN}

\* C13: end_time is the greatest of the timestamps seen that are not NaN;
\* start_time is the first timestamp seen that is not below 0.0, or the last
\* one seen when all are below 0.0; it is the least one when the timestamps
\* are not negative and come in non-decreasing order
C13_FirstAndMax ==
    Returned =>
        /\ flight.end_time =
              IF Numbers = {} THEN NEG_INFINITY
              ELSE CHOOSE t \in Numbers : \A u \in Numbers : t >= u
        /\ flight.start_time =
              IF seen = <<>> THEN NEG_INFINITY
              ELSE IF NotBelowZero = {} THEN seen[Len(seen)]
              ELSE seen[CHOOSE i \in NotBelowZero : \A j \in NotBelowZero : i <= j]
        /\ (/\ seen # <<>>
            /\ NoNaN
            /\ \A i \in 1..Len(seen) : seen[i] >= 0
            /\ \A i \in 1..(Len(seen) - 1) : seen[i] <= seen[i + 1]) =>
                 flight.start_time = Least /\ flight.end_time = Greatest

\* a later record has the smaller timestamp and start_time is the first
C13_Witness ==
    /\ Returned
    /\ Len(seen) >= 2
    /\ seen[2] >= 0
    /\ seen[1] > seen[2]
    /\ seen[1] # NAN
    /\ flight.start_time = seen[1]
    /\ flight.start_time # Least

----------------------------------------------------------------------------
(* Properties of Flight::merge *)

Merged == attempt.result = "true"

\* C6: merge returns false exactly when self is corrupted or next_flight
\* starts more than a second after self ends; neither a different tod_offset
\* nor a corrupted next_flight refuses, and a merge that goes through leaves
\* self.corrupted as the disjunction of the two flags
C6_MergeRefusal ==
    attempt.result # "none" =>
        /\ attempt.result = "false" <=>
              \/ attempt.self.corrupted
              \/ FGt(FSub(attempt.next_flight.start_time, attempt.self.end_time), 1)
        /\ Merged =>
              attempt.merged.corrupted =
                  (attempt.self.corrupted \/ attempt.next_flight.corrupted)

\* a merge of a corrupted flight of another time of day that starts exactly
\* one second after self ends
C6_Witness ==
    /\ Merged
    /\ attempt.self.tod_offset # attempt.next_flight.tod_offset
    /\ attempt.next_flight.corrupted
    /\ attempt.merged.corrupted
    /\ FSub(attempt.next_flight.start_time, attempt.self.end_time) = 1

PositionUpdates(f, uid) == f.entities[uid].position_data[1].position_updates

\* C7: after a merge that returned true every uid of self.entities is still
\* a key, its kind and flags are the same, and its earlier position updates
\* are a prefix of its updates
C7_LeftIdsPreserved ==
    Merged =>
        \A uid \in DOMAIN attempt.self.entities :
            /\ uid \in DOMAIN attempt.merged.entities
            /\ Len(attempt.merged.entities[uid].position_data) =
                  Len(attempt.self.entities[uid].position_data)
            /\ attempt.self.entities[uid].position_data # <<>> =>
                  LET before == attempt.self.entities[uid].position_data[1]
                      after == attempt.merged.entities[uid].position_data[1]
                  IN /\ after.kind = before.kind
                     /\ after.flags = before.flags
                     /\ Len(after.position_updates) >= Len(before.position_updates)
                     /\ SubSeq(after.position_updates, 1,
                               Len(before.position_updates)) = before.position_updates

\* a merge that extends an entity of self and adds another under a new id
C7_Witness ==
    /\ Merged
    /\ \E uid \in DOMAIN attempt.self.entities :
          Len(PositionUpdates(attempt.merged, uid)) > Len(PositionUpdates(attempt.self, uid))
    /\ DOMAIN attempt.merged.entities # DOMAIN attempt.self.entities

\* C8: a merge of the flight parsed from an empty input leaves self as it was
C8_EmptyMergeIdentity ==
    (Merged /\ attempt.next_flight = NewFlight) => attempt.merged = attempt.self

\* every feature event of f is an event of a feature of f
EventsHaveFeatures(f) ==
    \A i \in 1..Len(f.feature_events) :
        f.feature_events[i].feature_uid \in DOMAIN f.features

\* C16: in the flight being parsed, in every flight parsed and in every
\* flight a merge returned true for, the feature_uid of every feature event
\* is a key of features, and the lookup of write_feature_events finds it
C16_FeatureEventsResolve ==
    /\ EventsHaveFeatures(flight)
    /\ \A k \in 1..Len(flights) :
          /\ EventsHaveFeatures(flights[k])
          /\ ~write_feature_events(flights[k],
                                   IndexOf(IdMappingNew(flights[k]).features)).panic
    /\ Merged => EventsHaveFeatures(attempt.merged)

\* The attempt got as far as binding the entities of next_flight
Bindings == attempt.result \in {"true", "panic"}

\* The place of an entity of next_flight in the order of the first loop
PlaceOf(n) == CHOOSE k \in 1..Len(attempt.order_next) : attempt.order_next[k] = n

\* The entities of next_flight that were processed before n
ProcessedBefore(n) ==
    {attempt.order_next[k] : k \in 1..(PlaceOf(n) - 1)} \cap DOMAIN attempt.entity_ids

\* used_previous_entities at the moment n was processed
UsedBefore(n) ==
    {attempt.entity_ids[m] : m \in ProcessedBefore(n) \cap attempt.found}

\* The squared distance from the last position self had for p to the first
\* position next_flight has for n
EntityDistance2(n, p) ==
    LET previous_updates == PositionData(attempt.self, p).position_updates
    IN Distance2(PositionData(attempt.next_flight, n).position_updates[1],
                 previous_updates[Len(previous_updates)])

SameKind(n, p) ==
    PositionData(attempt.next_flight, n).kind = PositionData(attempt.self, p).kind

\* C19: an entity of next_flight is bound to an entity p that self had only
\* if p has its kind, no other entity of next_flight is bound to p, p's last
\* position is less than MERGE_DISTANCE from its first position, and no
\* other same-kind entity of self that was still unbound when it was
\* processed is strictly closer.
C19_BindsNearestUnused ==
    Bindings =>
        \A n \in DOMAIN attempt.entity_ids :
            attempt.entity_ids[n] \in DOMAIN attempt.self.entities =>
                LET p == attempt.entity_ids[n]
                IN /\ SameKind(n, p)
                   /\ \A m \in DOMAIN attempt.entity_ids :
                         attempt.entity_ids[m] = p => m = n
                   /\ EntityDistance2(n, p) < MERGE_DISTANCE * MERGE_DISTANCE
                   /\ \A q \in DOMAIN attempt.self.entities :
                         (/\ q # p
                          /\ q \notin UsedBefore(n)
                          /\ SameKind(n, q))
                         => ~(EntityDistance2(n, q) < EntityDistance2(n, p))

\* No unused same-kind entity of self was within MERGE_DISTANCE of the first
\* position of n when n was processed
NothingInRange(n) ==
    \A q \in (DOMAIN attempt.self.entities) \ UsedBefore(n) :
        SameKind(n, q) => EntityDistance2(n, q) >= MERGE_DISTANCE * MERGE_DISTANCE

\* The number of ids the cursor had handed out when n was processed
FreshBefore(n) == Cardinality(ProcessedBefore(n) \ attempt.found)

\* C20: an entity of next_flight with no unused same-kind entity of self in
\* range is bound to 1 + the largest uid of self + the number of ids handed
\* out before it; that id is no uid of an entity or feature of self and no
\* other id of this merge; after the merge self has one more entity for
\* each such id and holds the entity's callsign under it.
C20_FreshIds ==
    Bindings =>
        /\ \A n \in DOMAIN attempt.entity_ids :
              NothingInRange(n) =>
                  LET id == attempt.entity_ids[n]
                  IN /\ MaxKey(attempt.self) < I32_MAX - FreshBefore(n)
                     /\ id = MaxKey(attempt.self) + 1 + FreshBefore(n)
                     /\ id \notin DOMAIN attempt.self.entities
                     /\ id \notin DOMAIN attempt.self.features
                     /\ \A m \in DOMAIN attempt.entity_ids :
                           attempt.entity_ids[m] = id => m = n
                     /\ \A g \in DOMAIN attempt.feature_ids :
                           attempt.feature_ids[g] # id
                     /\ Merged =>
                           /\ id \in DOMAIN attempt.merged.entities
                           /\ n \in DOMAIN attempt.next_flight.callsigns =>
                                 /\ id \in DOMAIN attempt.merged.callsigns
                                 /\ attempt.merged.callsigns[id]
                                       = attempt.next_flight.callsigns[n]
        /\ Merged =>
              Cardinality(DOMAIN attempt.merged.entities)
                  = Cardinality(DOMAIN attempt.self.entities)
                    + Cardinality({n \in DOMAIN attempt.entity_ids : NothingInRange(n)})

\* The update merge is to push for an update of next_flight
ExpectedUpdate(update) ==
    [update EXCEPT !.radar_target =
        IF update.radar_target \in DOMAIN attempt.next_flight.entities
        THEN attempt.entity_ids[update.radar_target]
        ELSE -1]

\* The updates of next_flight's entities in sources, in turn, as merge is to
\* push them
RECURSIVE ExpectedUpdates(_)
ExpectedUpdates(sources) ==
    IF sources = <<>> THEN <<>>
    ELSE LET from == PositionUpdates(attempt.next_flight, Head(sources))
         IN [i \in 1..Len(from) |-> ExpectedUpdate(from[i])]
            \o ExpectedUpdates(Tail(sources))

\* The entities of next_flight bound to p, in the order they were visited
BoundTo(p) ==
    LET goes_to_p(n) == attempt.entity_ids[n] = p
    IN SelectSeq(attempt.order_next, goes_to_p)

\* The updates a merge added to the entity p
AddedUpdates(p) ==
    LET had == IF p \in DOMAIN attempt.self.entities
               THEN Len(PositionUpdates(attempt.self, p)) ELSE 0
        to == PositionUpdates(attempt.merged, p)
    IN SubSeq(to, had + 1, Len(to))

\* C21: the position updates a merge that returned true added to an entity
\* are the updates of the entities of next_flight bound to it, in their
\* order, unchanged but for radar_target, which is the id that the entity
\* of next_flight with that uid was bound to, or -1 when next_flight has no
\* such entity.
C21_RadarTargetsRewritten ==
    Merged =>
        \A n \in DOMAIN attempt.next_flight.entities :
            LET p == attempt.entity_ids[n]
            IN /\ p \in DOMAIN attempt.merged.entities
               /\ AddedUpdates(p) = ExpectedUpdates(BoundTo(p))

\* C21: a merge that copied an update whose radar_target it changed to the id
\* of another entity, and an update whose radar_target it changed to -1
C21_Witness ==
    /\ Merged
    /\ \E n \in DOMAIN attempt.next_flight.entities :
          \E i \in 1..Len(PositionUpdates(attempt.next_flight, n)) :
              LET update == PositionUpdates(attempt.next_flight, n)[i]
              IN /\ update.radar_target \in DOMAIN attempt.next_flight.entities
                 /\ ExpectedUpdate(update).radar_target # update.radar_target
                 /\ ExpectedUpdate(update) \in
                       {AddedUpdates(attempt.entity_ids[n])[k] :
                           k \in 1..Len(AddedUpdates(attempt.entity_ids[n]))}

\* The features a merge inserted into self, by their key in next_flight
InsertedFeatures ==
    {n \in DOMAIN attempt.feature_ids :
        /\ attempt.feature_ids[n] \notin DOMAIN attempt.self.features
        /\ attempt.feature_ids[n] \in DOMAIN attempt.merged.features}

\* C22: every feature a merge that returned true inserted into self has as
\* lead_uid the id that the feature's lead_uid in next_flight was bound to,
\* or -1 when no feature of next_flight has that uid.
C22_LeadUidMapped ==
    Merged =>
        \A n \in InsertedFeatures :
            LET lead == attempt.next_flight.features[n].lead_uid
            IN attempt.merged.features[attempt.feature_ids[n]].lead_uid
                  = IF lead \in DOMAIN attempt.feature_ids
                    THEN attempt.feature_ids[lead] ELSE -1

\* C24: a call of merge that does not refuse runs to its end and returns
\* true: no unwrap, assert or lookup of merge, merge_entities and
\* merge_features panics.
C24_MergeCompletes == attempt.result # "panic"

\* C25: after a merge that returned true, the events of every entity of
\* next_flight follow, in their order, the events that the entity it was
\* bound to had in self (none for a new id).
C25_EntityEventsKept ==
    Merged =>
        \A n \in DOMAIN attempt.next_flight.entities :
            LET p == attempt.entity_ids[n]
                had == IF p \in DOMAIN attempt.self.entities
                       THEN attempt.self.entities[p].events ELSE <<>>
                from == attempt.next_flight.entities[n].events
                to == attempt.merged.entities[p].events
            IN /\ Len(to) >= Len(had) + Len(from)
               /\ SubSeq(to, 1, Len(had)) = had
               /\ SubSeq(to, Len(had) + 1, Len(had) + Len(from)) = from

----------------------------------------------------------------------------
(* The whole of run on up to NumFiles inputs *)

RunTokens ==
    {Tok(REC_TYPE_AIRCRAFT_POSITION, "none", 0, PositionBody(1, 0, 0, -1)),
     Tok(REC_TYPE_AIRCRAFT_POSITION, "none", 3, PositionBody(1, 0, 100, -1)),
     Tok(REC_TYPE_FEATURE_POSITION, "none", 0, FeatureBody(1, 1, -1, 0)),
     Tok(REC_TYPE_AIRCRAFT_POSITION, "body", 1, NoBody)}

RunInit ==
    /\ ParseStart
    /\ WriteIdle
    /\ \E a \in [force : BOOLEAN, delete : BOOLEAN, inputs : 1..NumFiles] :
          RunStart(a)

RunNext ==
    \/ \E tok \in RunTokens : consumed < MaxRunRecords /\ ReadRecord(tok, MaxRunRecords)
    \/ ReadEof
    \/ ParseCleanup
    \/ OpenFails
    \/ Collect
    \/ TryMerge
    \/ LastRun
    \/ WriteFlight
    \/ LoopExit

SpecRun == RunInit /\ [][RunNext]_vars

----------------------------------------------------------------------------
(* Properties of run and write_flight *)

\* the outputs that hold input i
OutputsOf(i) == {k \in 1..Len(outputs) : outputs[k].first <= i /\ i <= outputs[k].last}

\* C17: an input is removed only under --delete and only when the output of
\* its run has been written from a flight that is not corrupted; a call of
\* write_flight that fails, panics or writes a corrupted flight removes no
\* input of its run
C17_DeleteAfterCleanWrite ==
    /\ \A i \in deleted :
          /\ args.delete
          /\ OutputsOf(i) # {}
          /\ \A k \in OutputsOf(i) : ~outputs[k].flight.corrupted
    /\ wf.outcome \in {"error", "refused", "panic", "corrupted"} =>
          \A i \in starting_index..(next_index - 1) : i \notin deleted

\* the inputs of a first run are removed after its output is written and
\* those of the next run, whose write fails, are kept
C17_Witness ==
    /\ args.delete
    /\ deleted # {}
    /\ wf.outcome = "error"
    /\ \A i \in deleted : i < starting_index

Ended == pc \in {"exited", "panicked"}

\* the inputs of the outputs written so far, in the order of writing
Covered == [i \in 1..Len(outputs) |-> outputs[i].first .. outputs[i].last]

\* C9: when run ends without a fatal error the outputs partition the inputs
\* into contiguous runs in input order, one output for each run
C9_RunsPartitionInputs ==
    (Ended /\ exit_code \in {0, 2}) =>
        /\ \A i \in 0..(args.inputs - 1) :
              Cardinality({k \in 1..Len(outputs) : i \in Covered[k]}) = 1
        /\ \A k \in 1..Len(outputs) :
              /\ outputs[k].first <= outputs[k].last
              /\ outputs[k].first = IF k = 1 THEN 0 ELSE outputs[k - 1].last + 1

WriteFlightCalled == wf.outcome # "none"

\* the flight write_flight was called with is the last of the outputs
OutputKept ==
    /\ outputs # <<>>
    /\ outputs[Len(outputs)].first = starting_index
    /\ outputs[Len(outputs)].flight.corrupted = wf.corrupted

====
